---- MODULE Spec2Model ----
(***************************************************************************)
(* Verification model of durable-x: the checkpoint orchestration engine    *)
(* (src/api.ts), its pure checkpoint transforms (src/checkpoint.ts), the   *)
(* cleanup executor (src/cleanup.ts) and the fingerprint (src/hash.ts),    *)
(* run against a durable key-value store of checkpoints.                   *)
(***************************************************************************)
EXTENDS Integers, Sequences, FiniteSets, TLC

\* ------------------------------------------------------------------ bounds

MaxNow == 2        \* Date.now() ranges over 1..MaxNow
MaxLoads == 2      \* load is called at most MaxLoads times in one behaviour
MaxCalls == 3      \* other orchestration calls started in one behaviour
MaxFaults == 1     \* faults in one behaviour: process crashes, failed storage
                   \* writes, rejected step functions, throwing cleanup runners
MaxActions == 3    \* actions in the list handed to executeAllCleanups on its own
MaxTasks == 4      \* calls made in one behaviour of overlapping calls
MaxRecords == 2    \* step records, and cleanup actions, of a checkpoint handed to
                   \* the row transforms
MaxPasses == 2     \* passes made over the cleanup list of one stored checkpoint

\* ------------------------------------------------------- JSON input values
\* A JavaScript value: strings and object keys are sequences of UTF-16 code
\* units; an object is the sequence of its <<key, value>> pairs in insertion
\* order.

Str(s) == [t |-> "str", s |-> s]
Num(n) == [t |-> "num", n |-> n]
Obj(kv) == [t |-> "obj", kv |-> kv]
Arr(xs) == [t |-> "arr", xs |-> xs]
Undefined == [t |-> "undefined"]
Null == [t |-> "null"]
NaN == [t |-> "nan"]

\* {"k":"Aa"}, {"k":"BB"}, {"a":1,"b":2}, {"b":2,"a":1}, undefined
InAa == Obj(<< <<(<<107>>), Str(<<65, 97>>)>> >>)
InBB == Obj(<< <<(<<107>>), Str(<<66, 66>>)>> >>)
InAB == Obj(<< <<(<<97>>), Num(1)>>, <<(<<98>>), Num(2)>> >>)
Inputs == {InAa, InBB, InAB, Undefined}

\* s < t in the order of Array.prototype.sort() on strings (code units)
RECURSIVE StrLess(_, _)
StrLess(s, t) ==
  IF t = <<>> THEN FALSE
  ELSE IF s = <<>> THEN TRUE
  ELSE IF Head(s) # Head(t) THEN Head(s) < Head(t)
  ELSE StrLess(Tail(s), Tail(t))

\* insert the pair kv into a key-sorted sequence of pairs
RECURSIVE InsertSorted(_, _)
InsertSorted(kv, sorted) ==
  IF sorted = <<>> THEN <<kv>>
  ELSE IF StrLess(kv[1], Head(sorted)[1]) THEN <<kv>> \o sorted
  ELSE <<Head(sorted)>> \o InsertSorted(kv, Tail(sorted))

RECURSIVE SortPairs(_)
SortPairs(kv) ==
  IF kv = <<>> THEN <<>> ELSE InsertSorted(Head(kv), SortPairs(Tail(kv)))

\* a sortKeys that orders the keys of the outermost object only
sortKeysShallow(v) ==
  IF v.t = "obj" THEN Obj(SortPairs(v.kv)) ELSE v

\* hash.ts sortKeys: arrays are mapped in place, objects get their keys
\* sorted at every level, everything else is returned as it is
RECURSIVE sortKeys(_)
sortKeys(v) ==
  IF v.t = "arr" THEN Arr([i \in 1..Len(v.xs) |-> sortKeys(v.xs[i])])
  ELSE IF v.t = "obj"
    THEN LET sorted == SortPairs(v.kv)
         IN Obj([i \in 1..Len(sorted) |-> <<sorted[i][1], sortKeys(sorted[i][2])>>])
  ELSE v

RECURSIVE Digits(_)
Digits(n) == IF n < 10 THEN <<48 + n>> ELSE Digits(n \div 10) \o <<48 + (n % 10)>>

\* JSON.stringify of a defined value, as code units: a property whose value
\* is undefined is left out, undefined in an array and NaN are written null
IsDefined(pair) == pair[2] # Undefined
RECURSIVE Stringify(_)
RECURSIVE StringifyPairs(_)
RECURSIVE StringifyItems(_)
Stringify(v) ==
  IF v.t = "str" THEN <<34>> \o v.s \o <<34>>
  ELSE IF v.t = "num" THEN Digits(v.n)
  ELSE IF v.t = "arr" THEN <<91>> \o StringifyItems(v.xs) \o <<93>>
  ELSE IF v.t = "obj" THEN <<123>> \o StringifyPairs(SelectSeq(v.kv, IsDefined)) \o <<125>>
  ELSE <<110, 117, 108, 108>>
StringifyPairs(kv) ==
  IF kv = <<>> THEN <<>>
  ELSE <<34>> \o Head(kv)[1] \o <<34, 58>> \o Stringify(Head(kv)[2])
       \o (IF Len(kv) > 1 THEN <<44>> \o StringifyPairs(Tail(kv)) ELSE <<>>)
StringifyItems(xs) ==
  IF xs = <<>> THEN <<>>
  ELSE Stringify(Head(xs))
       \o (IF Len(xs) > 1 THEN <<44>> \o StringifyItems(Tail(xs)) ELSE <<>>)

\* JSON.parse of a text written by JSON.stringify: ParseValue reads the value
\* that starts at position i and answers it with the position after it
RECURSIVE ParseValue(_, _)
RECURSIVE ParseItems(_, _, _)
RECURSIVE ParsePairs(_, _, _)
RECURSIVE ParseNumber(_, _, _)
RECURSIVE QuoteAt(_, _)
QuoteAt(text, i) == IF text[i] = 34 THEN i ELSE QuoteAt(text, i + 1)
ParseNumber(text, i, n) ==
  IF i <= Len(text) /\ text[i] \in 48..57
    THEN ParseNumber(text, i + 1, n * 10 + (text[i] - 48))
  ELSE [v |-> Num(n), p |-> i]
ParseValue(text, i) ==
  IF text[i] = 34
    THEN LET j == QuoteAt(text, i + 1)
         IN [v |-> Str(SubSeq(text, i + 1, j - 1)), p |-> j + 1]
  ELSE IF text[i] \in 48..57 THEN ParseNumber(text, i, 0)
  ELSE IF text[i] = 91
    THEN IF text[i + 1] = 93 THEN [v |-> Arr(<<>>), p |-> i + 2]
         ELSE ParseItems(text, i + 1, <<>>)
  ELSE IF text[i] = 123
    THEN IF text[i + 1] = 125 THEN [v |-> Obj(<<>>), p |-> i + 2]
         ELSE ParsePairs(text, i + 1, <<>>)
  ELSE [v |-> Null, p |-> i + 4]
ParseItems(text, i, acc) ==
  LET item == ParseValue(text, i)
      items == Append(acc, item.v)
  IN IF text[item.p] = 44 THEN ParseItems(text, item.p + 1, items)
     ELSE [v |-> Arr(items), p |-> item.p + 1]
ParsePairs(text, i, acc) ==
  LET key == ParseValue(text, i)
      val == ParseValue(text, key.p + 1)
      pairs == Append(acc, <<key.v.s, val.v>>)
  IN IF text[val.p] = 44 THEN ParsePairs(text, val.p + 1, pairs)
     ELSE [v |-> Obj(pairs), p |-> val.p + 1]

JSONparse(text) == ParseValue(text, 1).v

\* One reduce step ((h << 5) - h + c) | 0 on a 32-bit accumulator kept as two
\* 16-bit halves <<hi, lo>>
HashStep(h, c) ==
  LET lo == h[2] * 31 + c
      hi == h[1] * 31 + (lo \div 65536)
  IN <<hi % 65536, lo % 65536>>

RECURSIVE HashFold(_, _)
HashFold(h, text) ==
  IF text = <<>> THEN h ELSE HashFold(HashStep(h, Head(text)), Tail(text))

\* the accumulator as the signed 32-bit number JavaScript holds
Signed32(h) == IF h[1] >= 32768 THEN (h[1] - 65536) * 65536 + h[2] ELSE h[1] * 65536 + h[2]

Base36Digit(d) == IF d < 10 THEN 48 + d ELSE 87 + d

RECURSIVE Base36(_)
Base36(n) ==
  IF n < 36 THEN <<Base36Digit(n)>> ELSE Base36(n \div 36) \o <<Base36Digit(n % 36)>>

\* Number.prototype.toString(36)
ToString36(n) ==
  IF n >= 0 THEN Base36(n)
  ELSE IF n = -2147483647 - 1 THEN <<45, 122, 105, 107, 48, 122, 107>>
  ELSE <<45>> \o Base36(0 - n)

TypeError == <<>>

\* hash.ts hash: JSON.stringify(undefined) is undefined, and Array.from of it
\* throws a TypeError; every other value yields a non-empty base-36 string
hash(input) ==
  IF input.t = "undefined" THEN TypeError
  ELSE ToString36(Signed32(HashFold(<<0, 0>>, Stringify(sortKeys(input)))))

\* the values handed to the fingerprint function: objects in both key orders,
\* nested one and two levels deep, arrays of them in both element orders,
\* bare primitives, null and undefined
A1B2 == Obj(<< <<(<<97>>), Num(1)>>, <<(<<98>>), Num(2)>> >>)
B2A1 == Obj(<< <<(<<98>>), Num(2)>>, <<(<<97>>), Num(1)>> >>)
A2B1 == Obj(<< <<(<<97>>), Num(2)>>, <<(<<98>>), Num(1)>> >>)
Nest(u, v) == Obj(<< <<(<<120>>), u>>, <<(<<99>>), v>> >>)
Tsen(u, v) == Obj(<< <<(<<99>>), v>>, <<(<<120>>), u>> >>)
Wrap(u) == Obj(<< <<(<<120>>), u>> >>)
FingerprintInputs ==
  {A1B2, B2A1, A2B1, InAa, InBB,
   Nest(A1B2, Num(1)), Nest(B2A1, Num(1)), Tsen(A1B2, Num(1)), Tsen(B2A1, Num(1)),
   Wrap(Wrap(A1B2)), Wrap(Wrap(B2A1)), Wrap(Null),
   Arr(<<A1B2, B2A1>>), Arr(<<B2A1, A1B2>>), Arr(<<A1B2, A2B1>>), Arr(<<A2B1, A1B2>>),
   Arr(<<Num(1), Num(2)>>), Arr(<<Num(2), Num(1)>>),
   Nest(Arr(<<B2A1, Num(2)>>), Num(1)), Tsen(Arr(<<A1B2, Num(2)>>), Num(1)),
   Num(42), Str(<<65, 97>>), Null, Undefined}

\* ------------------------------------------------------------ domains

RunIds == {"r1", "r2"}
RunOrder == <<"r1", "r2">>       \* the order in which a storage scan lists rows
Names == {"s1", "s2"}
Types == {"t1", "t2"}
Runners == {"t1"}                \* CleanupRegistry: the types that have a runner (t2 has none)
Thresholds == {0, 1}
Procs == {"owner"}

NULL == 0                        \* completedAt: null (Date.now() is positive)

\* --------------------------------------------------- checkpoint.ts (pure)

emptyCheckpointStamped(fileId, t) ==
  [fileId |-> fileId, startedAt |-> t, completedAt |-> t, status |-> "running",
   steps |-> <<>>, cleanup |-> <<>>]
emptyCheckpoint(fileId, t) ==
  [fileId |-> fileId, startedAt |-> t, completedAt |-> NULL, status |-> "running",
   steps |-> <<>>, cleanup |-> <<>>]

\* steps is a function from the recorded step names to their StepRecord;
\* cp.steps[name] of an unrecorded name is undefined
NoStep == [undefined |-> TRUE]
HasStep(cp, name) == name \in DOMAIN cp.steps
StepAt(cp, name) == IF HasStep(cp, name) THEN cp.steps[name] ELSE NoStep

checkCacheMiss(step, inputHash) == [hit |-> FALSE]
checkCacheAnyHash(step, inputHash) ==
  IF step # NoStep
    THEN [hit |-> TRUE, result |-> step.result]
    ELSE [hit |-> FALSE]
checkCache(step, inputHash) ==
  IF step # NoStep /\ step.inputHash = inputHash
    THEN [hit |-> TRUE, result |-> step.result]
    ELSE [hit |-> FALSE]

withStepKeepFirst(cp, name, result, inputHash, t) ==
  IF HasStep(cp, name) THEN cp
  ELSE [cp EXCEPT !.steps =
         [n \in DOMAIN cp.steps \cup {name} |->
            IF n = name THEN [result |-> result, inputHash |-> inputHash, completedAt |-> t]
            ELSE cp.steps[n]]]
withStep(cp, name, result, inputHash, t) ==
  [cp EXCEPT !.steps =
     [n \in DOMAIN cp.steps \cup {name} |->
        IF n = name THEN [result |-> result, inputHash |-> inputHash, completedAt |-> t]
        ELSE cp.steps[n]]]

\* id is `${type}-${crypto.randomUUID()}`: the type paired with the uuid drawn
NewAction(action, uuid, t) ==
  [id |-> <<action.type, uuid>>, type |-> action.type, params |-> action.params,
   registeredAt |-> t]

withCleanupPrepend(cp, action, uuid, t) ==
  [cp EXCEPT !.cleanup = <<NewAction(action, uuid, t)>> \o cp.cleanup]
withCleanup(cp, action, uuid, t) ==
  [cp EXCEPT !.cleanup = Append(cp.cleanup, NewAction(action, uuid, t))]

RECURSIVE DropFirst(_, _)
DropFirst(list, type) ==
  IF list = <<>> THEN <<>>
  ELSE IF Head(list).type = type THEN Tail(list)
  ELSE <<Head(list)>> \o DropFirst(Tail(list), type)

withoutCleanupFirst(cp, type) == [cp EXCEPT !.cleanup = DropFirst(cp.cleanup, type)]
withoutCleanup(cp, type) ==
  LET keep(c) == c.type # type
  IN [cp EXCEPT !.cleanup = SelectSeq(cp.cleanup, keep)]

withStatusRestamped(cp, status, t) ==
  [cp EXCEPT !.status = status, !.startedAt = t,
             !.completedAt = IF status = "running" THEN NULL ELSE t]
withStatusCleared(cp, status, t) ==
  [cp EXCEPT !.status = status, !.cleanup = <<>>,
             !.completedAt = IF status = "running" THEN NULL ELSE t]
withStatus(cp, status, t) ==
  [cp EXCEPT !.status = status,
             !.completedAt = IF status = "running" THEN NULL ELSE t]

withoutStepAll(cp, name) == [cp EXCEPT !.steps = <<>>]
withoutStep(cp, name) ==
  [cp EXCEPT !.steps = [n \in DOMAIN cp.steps \ {name} |-> cp.steps[n]]]

\* ------------------------------------------ checkpoint.ts, row transforms
\* For the row transforms a checkpoint is the JavaScript value it is: steps
\* is an object of StepRecord objects keyed by step name, cleanup an array of
\* CleanupAction objects, with the property names and order of the object
\* literals in withStep and withCleanup.

K(word) ==
  CASE word = "result" -> <<114, 101, 115, 117, 108, 116>>
    [] word = "inputHash" -> <<105, 110, 112, 117, 116, 72, 97, 115, 104>>
    [] word = "completedAt" -> <<99, 111, 109, 112, 108, 101, 116, 101, 100, 65, 116>>
    [] word = "type" -> <<116, 121, 112, 101>>
    [] word = "params" -> <<112, 97, 114, 97, 109, 115>>
    [] word = "id" -> <<105, 100>>
    [] word = "registeredAt" -> <<114, 101, 103, 105, 115, 116, 101, 114, 101, 100, 65, 116>>
    [] word = "k" -> <<107>>
    [] word = "s" -> <<115>>
    [] word = "t" -> <<116>>

\* obj[key] of a JavaScript value: undefined when there is no such property
RECURSIVE GetIn(_, _)
GetIn(kv, key) ==
  IF kv = <<>> THEN Undefined
  ELSE IF kv[Len(kv)][1] = key THEN kv[Len(kv)][2]
  ELSE GetIn(SubSeq(kv, 1, Len(kv) - 1), key)
Get(v, key) == IF v.t = "obj" THEN GetIn(v.kv, key) ELSE Undefined
Keys(v) == IF v.t = "obj" THEN {v.kv[i][1] : i \in DOMAIN v.kv} ELSE {}
Items(v) == IF v.t = "arr" THEN v.xs ELSE <<>>

\* the StepRecord and the CleanupAction as withStep and withCleanup build them
StepRecord(result, inputHash, t) ==
  Obj(<< <<K("result"), result>>, <<K("inputHash"), Str(inputHash)>>,
         <<K("completedAt"), Num(t)>> >>)
CleanupAction(type, params, uuid, t) ==
  Obj(<< <<K("type"), Str(type)>>, <<K("params"), params>>,
         <<K("id"), Str(type \o <<45>> \o Digits(uuid))>>, <<K("registeredAt"), Num(t)>> >>)

checkpointToRow(cp) ==
  [file_id |-> cp.fileId, started_at |-> cp.startedAt, completed_at |-> cp.completedAt,
   status |-> cp.status,
   steps |-> Str(Stringify(cp.steps)),
   cleanup |-> Str(Stringify(cp.cleanup))]

\* the row of an adapter that hands steps and cleanup over as structured
\* values (adapters/windmill.ts checkpointToRow)
structuredRow(cp) ==
  [file_id |-> cp.fileId, started_at |-> cp.startedAt, completed_at |-> cp.completedAt,
   status |-> cp.status, steps |-> cp.steps, cleanup |-> cp.cleanup]

\* x ?? fallback
OrElse(x, fallback) == IF x \in {Undefined, Null} THEN fallback ELSE x

rowToCheckpointUnparsed(row) ==
  [fileId |-> row.file_id, startedAt |-> row.started_at,
   completedAt |-> row.completed_at, status |-> row.status,
   steps |-> OrElse(row.steps, Obj(<<>>)),
   cleanup |-> OrElse(row.cleanup, Arr(<<>>))]
rowToCheckpoint(row) ==
  [fileId |-> row.file_id, startedAt |-> row.started_at,
   completedAt |-> row.completed_at, status |-> row.status,
   steps |-> IF row.steps.t = "str" THEN JSONparse(row.steps.s)
             ELSE OrElse(row.steps, Obj(<<>>)),
   cleanup |-> IF row.cleanup.t = "str" THEN JSONparse(row.cleanup.s)
               ELSE OrElse(row.cleanup, Arr(<<>>))]

\* step results and cleanup params handed to the transforms: "d", 1, null,
\* undefined, NaN, {k:"d"}, {k:undefined}, [1,undefined]; {}, {k:"d"}, {k:NaN}
RowResults ==
  {Str(<<100>>), Num(1), Null, Undefined, NaN, Obj(<< <<K("k"), Str(<<100>>)>> >>),
   Obj(<< <<K("k"), Undefined>> >>), Arr(<<Num(1), Undefined>>)}
RowParams == {Obj(<<>>), Obj(<< <<K("k"), Str(<<100>>)>> >>), Obj(<< <<K("k"), NaN>> >>)}
RowTypes == {K("t"), K("type")}

\* the checkpoints handed to the transforms: up to MaxRecords steps named
\* s1, s2, ... and up to MaxRecords cleanup actions
RowCheckpoints ==
  {[fileId |-> "r1", startedAt |-> 1, completedAt |-> IF status = "running" THEN NULL ELSE 2,
    status |-> status,
    steps |-> Obj([i \in 1..n |-> <<K("s") \o Digits(i),
                                    StepRecord(results[i], <<104>> \o Digits(i), 1)>>]),
    cleanup |-> Arr([i \in 1..m |-> CleanupAction(types[i], params[i], i, 1)])] :
     status \in {"running", "completed", "failed"},
     n \in 0..MaxRecords, m \in 0..MaxRecords,
     results \in [1..MaxRecords -> RowResults],
     types \in [1..MaxRecords -> RowTypes], params \in [1..MaxRecords -> RowParams]}

\* ------------------------------------------------------------- state

VARIABLES
  store,      \* durable storage: stored run id -> Checkpoint
  cp,         \* per process: the caller's checkpoint object (NoCp before load)
  pc,         \* per process: where its call in flight stands
  call,       \* per process: the locals of the call in flight
  ret,        \* per process: outcome of its last settled call
  prev,       \* per process: outcome of the settled call before that
  reap,       \* outcome of the last sweep / sweepAllCleanups
  now,        \* Date.now()
  uuid,       \* crypto.randomUUID() values drawn so far
  fnCalls,    \* step function invocations so far
  crashes,    \* process crashes so far
  loads,      \* load calls started so far
  calls,      \* other orchestration calls started so far
  faults,     \* crashes, failed storage writes and rejected step functions so far
  registered, \* cleanup actions whose beforeRisky has returned to the caller
  confirmed,  \* ids of actions whose risky operation the caller saw succeed
  exec,       \* the executeAllCleanups call observed on its own
  obj,        \* overlapping calls: the checkpoint objects the callers hold
  task,       \* overlapping calls: each call, with its locals and its outcome
  codec,      \* the row transforms observed on their own
  fp          \* the fingerprint function observed on its own

vars == <<store, cp, pc, call, ret, prev, reap, now, uuid, fnCalls, crashes, loads, calls,
          faults, registered, confirmed, exec, obj, task, codec, fp>>

NoCp == [null |-> TRUE]
NoCall == [op |-> "none"]
NoRet == [op |-> "none"]
Crashed == [op |-> "crash"]
NoReap == [op |-> "none"]

Stored(r) == r \in DOMAIN store

\* the checkpoint objects held by callers whose calls overlap, and the calls
Objs == {"o1", "o2"}
Tasks == 1..MaxTasks
NoTask == [pc |-> "new"]

\* ------------------------------------------------------ storage adapter
\* The StorageAdapter of types.ts, as api.spec.ts createMockStorage and
\* adapters/windmill.ts implement it: rows keyed by fileId, last write wins.

StorageUpsertMerge(st, c) ==
  [r \in DOMAIN st \cup {c.fileId} |->
     IF r # c.fileId THEN st[r]
     ELSE IF r \notin DOMAIN st THEN c
     ELSE [c EXCEPT !.steps = [n \in DOMAIN c.steps \cup DOMAIN st[r].steps |->
                                 IF n \in DOMAIN st[r].steps THEN st[r].steps[n]
                                 ELSE c.steps[n]]]]
StorageUpsert(st, c) ==
  [r \in DOMAIN st \cup {c.fileId} |-> IF r = c.fileId THEN c ELSE st[r]]

StorageDeleteNone(st, fileId) == st
StorageDelete(st, fileId) == [r \in DOMAIN st \ {fileId} |-> st[r]]

\* fetchOne(fileId) ?? emptyCheckpoint(fileId)
FetchOrEmptyFresh(st, fileId, t) == emptyCheckpoint(fileId, t)
FetchOrEmpty(st, fileId, t) ==
  IF fileId \in DOMAIN st THEN st[fileId] ELSE emptyCheckpoint(fileId, t)

IsStale(c, thresholdMs, t) == c.status = "running" /\ c.startedAt < t - thresholdMs

\* the stored run ids of the stale running rows, in scan order
fetchStaleAnyStatus(st, thresholdMs, t) ==
  LET keep(r) == r \in DOMAIN st /\ st[r].startedAt < t - thresholdMs
  IN SelectSeq(RunOrder, keep)
fetchStale(st, thresholdMs, t) ==
  LET keep(r) == r \in DOMAIN st /\ IsStale(st[r], thresholdMs, t)
  IN SelectSeq(RunOrder, keep)

\* the stored run ids of the rows with a non-empty cleanup list, in scan order
fetchPendingCleanups(st) ==
  LET keep(r) == r \in DOMAIN st /\ Len(st[r].cleanup) > 0
  IN SelectSeq(RunOrder, keep)

\* ------------------------------------------------------------ cleanup.ts
\* executeAllCleanups maps executeCleanup over the actions: each action whose
\* type has a runner gets runner(action.params) invoked, in list order; an
\* action without a runner is skipped with a warning. The result lists the
\* invocations made.

\* the invocation the executor makes for a pending action
Invocation(a) == [id |-> a.id, type |-> a.type, params |-> a.params]

executeAllCleanupsFirst(runners, actions) ==
  LET has(a) == a.type \in runners
      inv == SelectSeq(actions, has)
  IN IF inv = <<>> THEN <<>> ELSE <<Invocation(inv[1])>>
executeAllCleanups(runners, actions) ==
  LET has(a) == a.type \in runners
      inv == SelectSeq(actions, has)
  IN [i \in 1..Len(inv) |-> [id |-> inv[i].id, type |-> inv[i].type, params |-> inv[i].params]]

\* The executor in detail. runners[action.type] is a property read on the
\* registry object: it finds the runner registered under the type, or a
\* member the object inherits from Object.prototype, or undefined.
Inherited == {"toString"}
ExecTypes == Types \cup Inherited

\* what a registered runner does when invoked: return a promise that
\* resolves, return one that rejects, or throw before returning
Behaviours == {"resolves", "rejects", "throws"}
Registries == UNION {[own -> Behaviours] : own \in SUBSET Types}

\* ResultAsync.fromPromise handed the non-promise an inherited member
\* returns: the library decides, and it is not part of this repository
Foreign == {"resolves", "throws"}

Lookup(registry, type) ==
  IF type \in DOMAIN registry THEN registry[type]
  ELSE IF type \in Inherited THEN "inherited"
  ELSE "undefined"

\* executeCleanup up to its first await, per action: skipped with a warning,
\* rejected because the invocation threw, or waiting for the runner
Dispatch(registry, foreign, a) ==
  LET runner == Lookup(registry, a.type)
  IN IF runner = "undefined" THEN "skipped"
     ELSE IF runner = "throws" THEN "threw"
     ELSE IF runner = "inherited" /\ foreign = "throws" THEN "threw"
     ELSE "pending"

\* the action lists of up to MaxActions actions, the i-th with id and params i
ActionLists ==
  UNION {{[i \in 1..n |-> NewAction([type |-> types[i], params |-> <<"params", i>>], i, 1)] :
            types \in [1..n -> ExecTypes]} : n \in 0..MaxActions}

ExecIdle == [phase |-> "idle"]

\* executeAllCleanups(runners)(actions): actions.map(executeCleanup(runners))
\* runs every executeCleanup up to its first await, in list order, so every
\* runner found is invoked before any is awaited
\* The call is made by a pass (load, sweep, sweepAllCleanups) over a stored
\* checkpoint that lists the actions: listed is that stored list, write the
\* fate of the pass's storage.upsert of {...cp, cleanup: []}.
ExecPass(registry, foreign, actions, pass) ==
  LET skipped(a) == Lookup(registry, a.type) = "undefined"
      missing == SelectSeq(actions, skipped)
  IN [phase |-> "running", registry |-> registry, foreign |-> foreign,
      actions |-> actions,
      invoked |-> executeAllCleanups(DOMAIN registry \cup Inherited, actions),
      state |-> [i \in DOMAIN actions |-> Dispatch(registry, foreign, actions[i])],
      order |-> <<>>,
      warned |-> [i \in DOMAIN missing |-> missing[i].type],
      errors |-> <<>>,
      listed |-> actions, write |-> "none", pass |-> pass]

ExecStart(registry, foreign, actions) ==
  /\ exec = ExecIdle
  /\ exec' = ExecPass(registry, foreign, actions, 1)
  /\ UNCHANGED <<store, cp, pc, call, ret, prev, reap, now, uuid, fnCalls, crashes, loads,
                 calls, faults, registered, confirmed, obj, task, codec, fp>>

\* the promise of one invoked runner settles: a rejection is caught by
\* ResultAsync.fromPromise and logged with console.error
RunnerSettle(i) ==
  /\ exec.phase \in {"running", "rejected"}
  /\ i \in DOMAIN exec.actions
  /\ exec.state[i] = "pending"
  /\ LET rejects == Lookup(exec.registry, exec.actions[i].type) = "rejects"
     IN exec' = [exec EXCEPT !.state[i] = IF rejects THEN "caught" ELSE "resolved",
                             !.order = Append(@, i),
                             !.errors = IF rejects THEN Append(@, exec.actions[i].type) ELSE @]
  /\ UNCHANGED <<store, cp, pc, call, ret, prev, reap, now, uuid, fnCalls, crashes, loads,
                 calls, faults, registered, confirmed, obj, task, codec, fp>>

\* a join that resolves as soon as the call is running
ExecResolveEarly ==
  /\ exec.phase = "running"
  /\ \A i \in DOMAIN exec.actions : exec.state[i] # "threw"
  /\ exec' = [exec EXCEPT !.phase = "resolved"]
  /\ UNCHANGED <<store, cp, pc, call, ret, prev, reap, now, uuid, fnCalls, crashes, loads,
                 calls, faults, registered, confirmed, obj, task, codec, fp>>

\* Promise.all resolves once every executeCleanup promise has resolved
ExecResolve ==
  /\ exec.phase = "running"
  /\ \A i \in DOMAIN exec.actions : exec.state[i] \in {"skipped", "resolved", "caught"}
  /\ exec' = [exec EXCEPT !.phase = "resolved"]
  /\ UNCHANGED <<store, cp, pc, call, ret, prev, reap, now, uuid, fnCalls, crashes, loads,
                 calls, faults, registered, confirmed, obj, task, codec, fp>>

\* Promise.all rejects as soon as one executeCleanup promise has rejected
ExecReject ==
  /\ exec.phase = "running"
  /\ \E i \in DOMAIN exec.actions : exec.state[i] = "threw"
  /\ exec' = [exec EXCEPT !.phase = "rejected"]
  /\ UNCHANGED <<store, cp, pc, call, ret, prev, reap, now, uuid, fnCalls, crashes, loads,
                 calls, faults, registered, confirmed, obj, task, codec, fp>>

\* executeAllCleanups(runners)(cp.cleanup).then(() => upsert({...cp, cleanup: []})):
\* the continuation of load, sweep and sweepAllCleanups runs once the call
\* has resolved; the write succeeds and the stored list is empty
ExecThenClear ==
  /\ exec.phase = "resolved"
  /\ exec.write = "none"
  /\ exec' = [exec EXCEPT !.write = "ok", !.listed = <<>>]
  /\ UNCHANGED <<store, cp, pc, call, ret, prev, reap, now, uuid, fnCalls, crashes, loads,
                 calls, faults, registered, confirmed, obj, task, codec, fp>>

\* the same continuation when storage.upsert rejects: the pass rejects and
\* the stored checkpoint is the one it read
ExecThenClearFails ==
  /\ exec.phase = "resolved"
  /\ exec.write = "none"
  /\ exec' = [exec EXCEPT !.write = "failed"]
  /\ UNCHANGED <<store, cp, pc, call, ret, prev, reap, now, uuid, fnCalls, crashes, loads,
                 calls, faults, registered, confirmed, obj, task, codec, fp>>

\* a later pass reads the stored checkpoint and calls executeAllCleanups on
\* the list it finds there
ExecLaterPass ==
  /\ exec.phase = "resolved"
  /\ exec.write = "failed"
  /\ exec.pass < MaxPasses
  /\ exec' = ExecPass(exec.registry, exec.foreign, exec.listed, exec.pass + 1)
  /\ UNCHANGED <<store, cp, pc, call, ret, prev, reap, now, uuid, fnCalls, crashes, loads,
                 calls, faults, registered, confirmed, obj, task, codec, fp>>

\* the row transforms applied to one checkpoint: encode it both ways, then
\* decode both rows
CodecIdle == [phase |-> "idle"]
FingerprintIdle == [phase |-> "idle"]

\* hash.ts: hash and sortKeys applied to two values, as durable applies hash to
\* the inputs of two Step calls
Fingerprint(a, b) ==
  /\ fp = FingerprintIdle
  /\ fp' = [phase |-> "hashed", a |-> a, b |-> b,
            ha |-> hash(a), hb |-> hash(b),
            sa |-> sortKeys(a), sb |-> sortKeys(b)]
  /\ UNCHANGED <<store, cp, pc, call, ret, prev, reap, now, uuid, fnCalls, crashes, loads,
                 calls, faults, registered, confirmed, exec, obj, task, codec>>

RowEncode(c) ==
  /\ codec = CodecIdle
  /\ codec' = [phase |-> "encoded", cp |-> c, row |-> checkpointToRow(c),
               structured |-> structuredRow(c)]
  /\ UNCHANGED <<store, cp, pc, call, ret, prev, reap, now, uuid, fnCalls, crashes, loads,
                 calls, faults, registered, confirmed, exec, obj, task, fp>>

RowDecode ==
  /\ codec.phase = "encoded"
  /\ codec' = [phase |-> "decoded", cp |-> codec.cp, row |-> codec.row,
               structured |-> codec.structured,
               restored |-> rowToCheckpoint(codec.row),
               passed |-> rowToCheckpoint(codec.structured)]
  /\ UNCHANGED <<store, cp, pc, call, ret, prev, reap, now, uuid, fnCalls, crashes, loads,
                 calls, faults, registered, confirmed, exec, obj, task, fp>>

\* Object.assign(target, source): every own property of source overwrites target's
ObjectAssign(target, source) ==
  [f \in DOMAIN target \cup DOMAIN source |->
     IF f \in DOMAIN source THEN source[f] ELSE target[f]]

\* ------------------------------------------------------------- api.ts

Init ==
  /\ store = <<>>
  /\ cp = [p \in Procs |-> NoCp]
  /\ pc = [p \in Procs |-> "idle"]
  /\ call = [p \in Procs |-> NoCall]
  /\ ret = [p \in Procs |-> NoRet]
  /\ prev = [p \in Procs |-> NoRet]
  /\ reap = NoReap
  /\ now = 1
  /\ uuid = 0
  /\ fnCalls = 0
  /\ crashes = 0
  /\ loads = 0
  /\ calls = 0
  /\ faults = 0
  /\ registered = {}
  /\ confirmed = {}
  /\ exec = ExecIdle
  /\ obj = [o \in Objs |-> NoCp]
  /\ task = [t \in Tasks |-> NoTask]
  /\ codec = CodecIdle
  /\ fp = FingerprintIdle

CanCall(p) == pc[p] = "idle" /\ calls < MaxCalls
Loaded(p) == cp[p] # NoCp

\* the call of p settles with outcome r
Settle(p, r) ==
  /\ ret' = [ret EXCEPT ![p] = r]
  /\ prev' = [prev EXCEPT ![p] = ret[p]]
  /\ pc' = [pc EXCEPT ![p] = "idle"]
  /\ call' = [call EXCEPT ![p] = NoCall]

\* load, recovery branch: the checkpoint persisted once the cleanups settled
recoverEmptied(c, t) == emptyCheckpoint(c.fileId, t)
recoverKeepCleanup(c, t) == [c EXCEPT !.startedAt = t, !.status = "running"]
recover(c, t) == [c EXCEPT !.cleanup = <<>>, !.startedAt = t, !.status = "running"]

\* load: if (cp.cleanup.length === 0) return cp
NothingPendingNever(c) == FALSE
NothingPending(c) == Len(c.cleanup) = 0

\* load: fetchOne, existing ?? emptyCheckpoint; with nothing pending the
\* checkpoint goes straight to upsert, otherwise every pending action is
\* handed to the cleanup executor, whose runners are started at once
LoadStart(p, fileId) ==
  /\ pc[p] = "idle"
  /\ loads < MaxLoads
  /\ LET c == FetchOrEmpty(store, fileId, now)
         pending == ~NothingPending(c)
     IN /\ call' = [call EXCEPT ![p] =
               [op |-> "load", fileId |-> fileId, runners |-> Runners, at |-> now,
                found |-> Stored(fileId),
                row |-> IF Stored(fileId) THEN store[fileId] ELSE NoCp,
                fetched |-> c,
                ran |-> IF pending THEN executeAllCleanups(Runners, c.cleanup) ELSE <<>>,
                next |-> c]]
        /\ pc' = [pc EXCEPT ![p] = IF pending THEN "cleanup" ELSE "upsert"]
  /\ loads' = loads + 1
  /\ UNCHANGED <<faults, calls, store, cp, ret, prev, reap, now, uuid, fnCalls, crashes,
                 registered, confirmed, exec, obj, task, codec, fp>>

\* load on an adapter whose read raises instead of answering null: the
\* rejection of fetchOne is the rejection of load
LoadStartReadRaised(p, fileId) ==
  /\ pc[p] = "idle"
  /\ loads < MaxLoads
  /\ faults < MaxFaults
  /\ loads' = loads + 1
  /\ faults' = faults + 1
  /\ Settle(p, [op |-> "load", ok |-> FALSE, error |-> "fetch", fileId |-> fileId,
                at |-> now, found |-> FALSE,
                row |-> IF Stored(fileId) THEN store[fileId] ELSE NoCp])
  /\ UNCHANGED <<calls, store, cp, reap, now, uuid, fnCalls, crashes,
                 registered, confirmed, exec, obj, task, codec, fp>>

\* load on the windmill adapter when the read fails: fetchOne catches the
\* error and resolves null, so load goes on as for a run never stored:
\* existing ?? emptyCheckpoint(fileId), nothing pending, storage.upsert
LoadStartReadFailed(p, fileId) ==
  /\ pc[p] = "idle"
  /\ loads < MaxLoads
  /\ faults < MaxFaults
  /\ LET c == emptyCheckpoint(fileId, now)
     IN /\ call' = [call EXCEPT ![p] =
               [op |-> "load", fileId |-> fileId, runners |-> Runners, at |-> now,
                found |-> FALSE,
                row |-> IF Stored(fileId) THEN store[fileId] ELSE NoCp,
                fetched |-> c,
                ran |-> <<>>,
                next |-> c]]
        /\ pc' = [pc EXCEPT ![p] = "upsert"]
  /\ loads' = loads + 1
  /\ faults' = faults + 1
  /\ UNCHANGED <<calls, store, cp, ret, prev, reap, now, uuid, fnCalls, crashes,
                 registered, confirmed, exec, obj, task, codec, fp>>

\* load: executeAllCleanups has settled; build the recovered checkpoint
LoadCleaned(p) ==
  /\ pc[p] = "cleanup"
  /\ call' = [call EXCEPT ![p].next = recover(call[p].fetched, now)]
  /\ pc' = [pc EXCEPT ![p] = "upsert"]
  /\ UNCHANGED <<loads, faults, store, cp, ret, prev, reap, now, uuid, fnCalls, crashes, calls,
                 registered, confirmed, exec, obj, task, codec, fp>>

\* load: executeAllCleanups rejects, because a runner threw when it was
\* invoked, and so does load; nothing is persisted
LoadCleanupRejected(p) ==
  /\ pc[p] = "cleanup"
  /\ call[p].ran # <<>>
  /\ faults < MaxFaults
  /\ faults' = faults + 1
  /\ Settle(p, call[p] @@ [ok |-> FALSE, error |-> "cleanup"])
  /\ UNCHANGED <<loads, store, cp, reap, now, uuid, fnCalls, crashes, calls,
                 registered, confirmed, exec, obj, task, codec, fp>>

\* The code never inspects a params object or a step result, so each call
\* passes a fresh one: the n-th registration passes params n, the k-th step
\* function invocation resolves with result k.
ParamsOf(n) == <<"params", n>>
ResultOf(k) == <<"result", k>>

\* beforeRisky: withCleanup(cp, {type, params}), then upsert
BeforeRiskyStart(p, type) ==
  /\ CanCall(p)
  /\ Loaded(p)
  /\ LET spec == [type |-> type, params |-> ParamsOf(uuid + 1)]
     IN call' = [call EXCEPT ![p] =
          [op |-> "beforeRisky", type |-> type, params |-> spec.params,
           action |-> NewAction(spec, uuid + 1, now), before |-> cp[p],
           next |-> withCleanup(cp[p], spec, uuid + 1, now)]]
  /\ uuid' = uuid + 1
  /\ pc' = [pc EXCEPT ![p] = "upsert"]
  /\ calls' = calls + 1
  /\ UNCHANGED <<loads, faults, store, cp, ret, prev, reap, now, fnCalls, crashes,
                 registered, confirmed, exec, obj, task, codec, fp>>

\* the registered, not yet confirmed actions of p's run with the given type
Awaiting(p, type) ==
  {a \in registered : a.fileId = cp[p].fileId /\ a.action.type = type
                      /\ a.action.id \notin confirmed}

\* afterSafe: withoutCleanup(cp, type), then upsert. The caller calls it once
\* it has seen a risky operation of that type succeed: seen names the action
\* registered for that operation (none when no such action is awaiting).
AfterSafeStart(p, type) ==
  /\ CanCall(p)
  /\ Loaded(p)
  /\ \E seen \in (IF Awaiting(p, type) = {} THEN {{}}
                  ELSE {{a.action.id} : a \in Awaiting(p, type)}) :
       confirmed' = confirmed \cup seen
  /\ call' = [call EXCEPT ![p] =
       [op |-> "afterSafe", type |-> type, before |-> cp[p],
        next |-> withoutCleanup(cp[p], type)]]
  /\ pc' = [pc EXCEPT ![p] = "upsert"]
  /\ calls' = calls + 1
  /\ UNCHANGED <<loads, faults, store, cp, ret, prev, reap, now, uuid, fnCalls, crashes,
                 registered, exec, obj, task, codec, fp>>

\* durable: hash the inputs (a TypeError is thrown to the caller), check the
\* cache; on a hit resolve with the cached result, on a miss invoke fn
DurableStart(p, name, inputs) ==
  /\ CanCall(p)
  /\ Loaded(p)
  /\ LET h == hash(inputs)
         cached == checkCache(StepAt(cp[p], name), h)
         base == [op |-> "step", name |-> name, inputs |-> inputs, h |-> h,
                  before |-> cp[p]]
     IN IF h = TypeError
          THEN /\ Settle(p, [base EXCEPT !.before = NoCp] @@ [ok |-> FALSE, error |-> "TypeError"])
               /\ UNCHANGED fnCalls
        ELSE IF cached.hit
          THEN /\ Settle(p, base @@ [ok |-> TRUE, hit |-> TRUE, value |-> cached.result])
               /\ UNCHANGED fnCalls
        ELSE /\ fnCalls' = fnCalls + 1
             /\ call' = [call EXCEPT ![p] = base]
             /\ pc' = [pc EXCEPT ![p] = "fn"]
             /\ UNCHANGED <<loads, faults, ret, prev>>
  /\ calls' = calls + 1
  /\ UNCHANGED <<loads, faults, store, cp, reap, now, uuid, crashes, registered, confirmed, exec, obj, task, codec, fp>>

\* durable, miss branch: fn() resolves with its result, and withStep is
\* applied to the caller's checkpoint object as it is then
FnResolve(p) ==
  /\ pc[p] = "fn"
  /\ call' = [call EXCEPT ![p] =
       call[p] @@ [next |-> withStep(cp[p], call[p].name, ResultOf(fnCalls),
                                     call[p].h, now)]]
  /\ pc' = [pc EXCEPT ![p] = "upsert"]
  /\ UNCHANGED <<loads, faults, store, cp, ret, prev, reap, now, uuid, fnCalls, crashes, calls,
                 registered, confirmed, exec, obj, task, codec, fp>>

\* durable, miss branch: fn() rejects, and so does the call
FnRejectRetried(p) ==
  /\ pc[p] = "fn"
  /\ faults < MaxFaults
  /\ faults' = faults + 1
  /\ fnCalls' = fnCalls + 1
  /\ UNCHANGED <<loads, store, cp, pc, call, ret, prev, reap, now, uuid, crashes, calls,
                 registered, confirmed, exec, obj, task, codec, fp>>
FnReject(p) ==
  /\ pc[p] = "fn"
  /\ faults < MaxFaults
  /\ faults' = faults + 1
  /\ Settle(p, call[p] @@ [ok |-> FALSE, error |-> "fn"])
  /\ UNCHANGED <<loads, store, cp, reap, now, uuid, fnCalls, crashes, calls,
                 registered, confirmed, exec, obj, task, codec, fp>>

\* complete / fail: withStatus(cp, status), then upsert
CompleteStart(p) ==
  /\ CanCall(p)
  /\ Loaded(p)
  /\ call' = [call EXCEPT ![p] =
       [op |-> "complete", next |-> withStatus(cp[p], "completed", now)]]
  /\ pc' = [pc EXCEPT ![p] = "upsert"]
  /\ calls' = calls + 1
  /\ UNCHANGED <<loads, faults, store, cp, ret, prev, reap, now, uuid, fnCalls, crashes,
                 registered, confirmed, exec, obj, task, codec, fp>>

FailStart(p) ==
  /\ CanCall(p)
  /\ Loaded(p)
  /\ call' = [call EXCEPT ![p] =
       [op |-> "fail", next |-> withStatus(cp[p], "failed", now)]]
  /\ pc' = [pc EXCEPT ![p] = "upsert"]
  /\ calls' = calls + 1
  /\ UNCHANGED <<loads, faults, store, cp, ret, prev, reap, now, uuid, fnCalls, crashes,
                 registered, confirmed, exec, obj, task, codec, fp>>

\* clearStep: withoutStep(cp, name), then upsert
ClearStepStart(p, name) ==
  /\ CanCall(p)
  /\ Loaded(p)
  /\ call' = [call EXCEPT ![p] =
       [op |-> "clearStep", name |-> name, before |-> cp[p],
        next |-> withoutStep(cp[p], name)]]
  /\ pc' = [pc EXCEPT ![p] = "upsert"]
  /\ calls' = calls + 1
  /\ UNCHANGED <<loads, faults, store, cp, ret, prev, reap, now, uuid, fnCalls, crashes,
                 registered, confirmed, exec, obj, task, codec, fp>>

\* .then(storage.upsert): the write succeeds
UpsertOk(p) ==
  /\ pc[p] = "upsert"
  /\ store' = StorageUpsert(store, call[p].next)
  /\ pc' = [pc EXCEPT ![p] = "then"]
  /\ UNCHANGED <<loads, faults, cp, call, ret, prev, reap, now, uuid, fnCalls, crashes, calls,
                 registered, confirmed, exec, obj, task, codec, fp>>

\* .then(storage.upsert): the write fails and the call rejects
UpsertSwallowed(p) ==
  /\ pc[p] = "upsert"
  /\ faults < MaxFaults
  /\ faults' = faults + 1
  /\ pc' = [pc EXCEPT ![p] = "then"]
  /\ UNCHANGED <<loads, store, cp, call, ret, prev, reap, now, uuid, fnCalls, crashes, calls,
                 registered, confirmed, exec, obj, task, codec, fp>>
UpsertFailAssigned(p) ==
  /\ pc[p] = "upsert"
  /\ faults < MaxFaults
  /\ faults' = faults + 1
  /\ Settle(p, call[p] @@ [ok |-> FALSE, error |-> "upsert"])
  /\ cp' = [cp EXCEPT ![p] = IF Loaded(p) THEN ObjectAssign(cp[p], call[p].next) ELSE cp[p]]
  /\ UNCHANGED <<loads, store, reap, now, uuid, fnCalls, crashes, calls,
                 registered, confirmed, exec, obj, task, codec, fp>>
UpsertFail(p) ==
  /\ pc[p] = "upsert"
  /\ faults < MaxFaults
  /\ faults' = faults + 1
  /\ Settle(p, call[p] @@ [ok |-> FALSE, error |-> "upsert"])
  /\ UNCHANGED <<loads, store, cp, reap, now, uuid, fnCalls, crashes, calls,
                 registered, confirmed, exec, obj, task, codec, fp>>

\* what the call resolves with
Outcome(c, before) ==
  IF c.op = "step"
    THEN [op |-> "step", ok |-> TRUE, name |-> c.name, inputs |-> c.inputs, h |-> c.h,
          hit |-> FALSE, before |-> before, value |-> c.next.steps[c.name].result]
  ELSE IF c.op = "load"
    THEN [op |-> "load", ok |-> TRUE, fileId |-> c.fileId, runners |-> c.runners, at |-> c.at,
          found |-> c.found, row |-> c.row, fetched |-> c.fetched, ran |-> c.ran, value |-> c.next]
  ELSE IF c.op = "beforeRisky"
    THEN [op |-> c.op, ok |-> TRUE, type |-> c.type, params |-> c.params,
          action |-> c.action, before |-> before, value |-> c.next]
  ELSE IF c.op = "afterSafe"
    THEN [op |-> c.op, ok |-> TRUE, type |-> c.type, before |-> before, value |-> c.next]
  ELSE IF c.op = "clearStep"
    THEN [op |-> c.op, ok |-> TRUE, name |-> c.name, before |-> before, value |-> c.next]
  ELSE [op |-> c.op, ok |-> TRUE, before |-> before, value |-> c.next]

\* the callback after upsert. load returns the persisted checkpoint, which
\* the caller holds from then on; beforeRisky, afterSafe, durable and
\* clearStep Object.assign it onto the caller's object; complete and fail
\* only return it, and the caller keeps its object or adopts the result.
Then(p) ==
  /\ pc[p] = "then"
  /\ LET c == call[p]
         updated == c.next
     IN /\ \E adopt \in (IF c.op \in {"complete", "fail"} THEN BOOLEAN ELSE {TRUE}) :
             cp' = [cp EXCEPT ![p] =
                      IF c.op = "load" THEN updated
                      ELSE IF c.op \in {"complete", "fail"}
                        THEN (IF adopt THEN updated ELSE cp[p])
                      ELSE ObjectAssign(cp[p], updated)]
        /\ registered' =
             IF c.op = "beforeRisky"
               THEN registered \cup {[fileId |-> updated.fileId, action |-> c.action]}
             ELSE IF c.op = "load"
               THEN {a \in registered : a.fileId # c.fileId}
             ELSE registered
        /\ Settle(p, Outcome(c, cp[p]))
  /\ UNCHANGED <<loads, faults, store, reap, now, uuid, fnCalls, crashes, calls, confirmed, exec, obj, task, codec, fp>>

\* clear: storage.deleteOne(fileId)
ClearOk(p, fileId) ==
  /\ CanCall(p)
  /\ store' = StorageDelete(store, fileId)
  /\ Settle(p, [op |-> "clear", ok |-> TRUE, fileId |-> fileId,
                row |-> IF Stored(fileId) THEN store[fileId] ELSE NoCp])
  /\ calls' = calls + 1
  /\ UNCHANGED <<loads, faults, cp, reap, now, uuid, fnCalls, crashes, registered, confirmed, exec, obj, task, codec, fp>>

ClearFail(p, fileId) ==
  /\ CanCall(p)
  /\ faults < MaxFaults
  /\ faults' = faults + 1
  /\ Settle(p, [op |-> "clear", ok |-> FALSE, error |-> "delete"])
  /\ calls' = calls + 1
  /\ UNCHANGED <<loads, store, cp, reap, now, uuid, fnCalls, crashes, registered, confirmed, exec, obj, task, codec, fp>>

\* ------------------------------------------- api.ts, overlapping calls
\* Nothing in api.ts serializes calls. A caller may start a call on a
\* checkpoint object before its previous call on that object has resolved
\* (each call is its own promise chain), and two processes may each hold an
\* object loaded from the same run. Each call is a task bound to the object
\* it was given; tasks are started in the order of their numbers.

CanStart(t) == task[t] = NoTask /\ \A u \in Tasks : u < t => task[u] # NoTask

\* the writes of the tasks that have reached the store so far
Written == {u \in Tasks : task[u] # NoTask /\ task[u].w > 0}

TaskRecord(op, o) ==
  [pc |-> "done", op |-> op, o |-> o, name |-> "", inputs |-> Undefined, h |-> "",
   k |-> 0, next |-> NoCp, w |-> 0, ok |-> TRUE, hit |-> FALSE, value |-> NoCp,
   fetched |-> NoCp, ran |-> <<>>]

\* load('r1'): fetchOne, existing ?? emptyCheckpoint; with nothing pending the
\* checkpoint goes straight to upsert, otherwise every runner found is invoked
TaskLoad(t, o) ==
  /\ CanStart(t)
  /\ LET c == FetchOrEmpty(store, "r1", now)
         pending == ~NothingPending(c)
     IN task' = [task EXCEPT ![t] =
                   [TaskRecord("load", o) EXCEPT
                      !.pc = IF pending THEN "cleanup" ELSE "upsert",
                      !.next = c,
                      !.fetched = c,
                      !.ran = IF pending THEN executeAllCleanups(Runners, c.cleanup) ELSE <<>>]]
  /\ UNCHANGED <<store, cp, pc, call, ret, prev, reap, now, uuid, fnCalls, crashes, loads,
                 calls, faults, registered, confirmed, exec, obj, codec, fp>>

\* durable(cp)(name)(inputs)(fn) up to fn(): hash, checkCache on the object
\* as it is when the call is made
TaskStep(t, o, name, inputs) ==
  /\ CanStart(t)
  /\ obj[o] # NoCp
  /\ LET h == hash(inputs)
         cached == checkCache(StepAt(obj[o], name), h)
         base == [TaskRecord("step", o) EXCEPT !.name = name, !.inputs = inputs, !.h = h]
     IN IF h = TypeError
          THEN /\ task' = [task EXCEPT ![t] = [base EXCEPT !.ok = FALSE]]
               /\ UNCHANGED fnCalls
        ELSE IF cached.hit
          THEN /\ task' = [task EXCEPT ![t] = [base EXCEPT !.hit = TRUE, !.value = cached.result]]
               /\ UNCHANGED fnCalls
        ELSE /\ fnCalls' = fnCalls + 1
             /\ task' = [task EXCEPT ![t] = [base EXCEPT !.pc = "fn", !.k = fnCalls + 1]]
  /\ UNCHANGED <<store, cp, pc, call, ret, prev, reap, now, uuid, crashes, loads,
                 calls, faults, registered, confirmed, exec, obj, codec, fp>>

\* fn() resolves: withStep is applied to the object as it is then
TaskFnResolve(t) ==
  /\ task[t] # NoTask
  /\ task[t].pc = "fn"
  /\ task' = [task EXCEPT ![t].pc = "upsert",
                          ![t].next = withStep(obj[task[t].o], task[t].name,
                                               ResultOf(task[t].k), task[t].h, now)]
  /\ UNCHANGED <<store, cp, pc, call, ret, prev, reap, now, uuid, fnCalls, crashes, loads,
                 calls, faults, registered, confirmed, exec, obj, codec, fp>>

\* .then(storage.upsert): the row is written
TaskUpsert(t) ==
  /\ task[t] # NoTask
  /\ task[t].pc = "upsert"
  /\ store' = StorageUpsert(store, task[t].next)
  /\ task' = [task EXCEPT ![t].pc = "then", ![t].w = Cardinality(Written) + 1]
  /\ UNCHANGED <<cp, pc, call, ret, prev, reap, now, uuid, fnCalls, crashes, loads,
                 calls, faults, registered, confirmed, exec, obj, codec, fp>>

\* the callback after upsert: load hands the checkpoint to its caller,
\* durable and beforeRisky assign it onto the object and resolve (durable
\* with the step's result), sweepAllCleanups counts the checkpoint
TaskThen(t) ==
  /\ task[t] # NoTask
  /\ task[t].pc = "then"
  /\ LET c == task[t]
     IN /\ obj' = IF c.op = "load" THEN [obj EXCEPT ![c.o] = c.next]
                  ELSE IF c.op = "sweepAllCleanups" THEN obj
                  ELSE [obj EXCEPT ![c.o] = ObjectAssign(obj[c.o], c.next)]
        /\ task' = [task EXCEPT ![t].pc = "done",
                                ![t].value = IF c.op = "step"
                                               THEN c.next.steps[c.name].result
                                             ELSE c.next]
  /\ UNCHANGED <<store, cp, pc, call, ret, prev, reap, now, uuid, fnCalls, crashes, loads,
                 calls, faults, registered, confirmed, exec, codec, fp>>

\* sweep, per stale checkpoint: run its cleanups, then persist it failed
reapedRunning(c, t) == [c EXCEPT !.cleanup = <<>>]
reaped(c, t) == withStatus([c EXCEPT !.cleanup = <<>>], "failed", t)

\* sweepAllCleanups, per checkpoint with pending cleanups: persist it without
sweptFailed(c) == [c EXCEPT !.cleanup = <<>>, !.status = "failed"]
swept(c) == [c EXCEPT !.cleanup = <<>>]

\* the invocations a reaper makes for the listed rows, row by row
RanFor(st, ids) == [i \in 1..Len(ids) |-> executeAllCleanups(Runners, st[ids[i]].cleanup)]

\* beforeRisky on the object as it is when the call is made
TaskBeforeRisky(t, o, type) ==
  /\ CanStart(t)
  /\ obj[o] # NoCp
  /\ LET spec == [type |-> type, params |-> ParamsOf(uuid + 1)]
     IN task' = [task EXCEPT ![t] =
                   [TaskRecord("beforeRisky", o) EXCEPT
                      !.pc = "upsert",
                      !.next = withCleanup(obj[o], spec, uuid + 1, now)]]
  /\ uuid' = uuid + 1
  /\ UNCHANGED <<store, cp, pc, call, ret, prev, reap, now, fnCalls, crashes, loads,
                 calls, faults, registered, confirmed, exec, obj, codec, fp>>

\* sweepAllCleanups in another process: fetchPendingCleanups reads the run
\* and, when it has pending cleanups, every runner found is invoked
TaskSweepAllCleanups(t) ==
  /\ CanStart(t)
  /\ LET cps == fetchPendingCleanups(store)
         base == TaskRecord("sweepAllCleanups", "reaper")
     IN task' = [task EXCEPT ![t] =
                   IF cps = <<>> THEN base
                   ELSE [base EXCEPT
                           !.pc = "cleanup",
                           !.fetched = store[cps[1]],
                           !.ran = executeAllCleanups(Runners, store[cps[1]].cleanup)]]
  /\ UNCHANGED <<store, cp, pc, call, ret, prev, reap, now, uuid, fnCalls, crashes, loads,
                 calls, faults, registered, confirmed, exec, obj, codec, fp>>

\* executeAllCleanups has resolved: the pass builds the checkpoint it will
\* write from the one it read
TaskCleaned(t) ==
  /\ task[t] # NoTask
  /\ task[t].pc = "cleanup"
  /\ task' = [task EXCEPT ![t].pc = "upsert",
                          ![t].next = IF task[t].op = "load"
                                        THEN recover(task[t].fetched, now)
                                      ELSE swept(task[t].fetched)]
  /\ UNCHANGED <<store, cp, pc, call, ret, prev, reap, now, uuid, fnCalls, crashes, loads,
                 calls, faults, registered, confirmed, exec, obj, codec, fp>>

\* sweep: every stale running checkpoint has its cleanups run and is
\* persisted as failed with no cleanup; resolves with the count and the ids
Sweep(thresholdMs) ==
  /\ calls < MaxCalls
  /\ LET stale == fetchStale(store, thresholdMs, now)
         hit == {stale[i] : i \in 1..Len(stale)}
     IN /\ store' = [r \in DOMAIN store |->
                       IF r \in hit THEN reaped(store[r], now) ELSE store[r]]
        /\ reap' = [op |-> "sweep", ok |-> TRUE, seq |-> calls + 1,
                    thresholdMs |-> thresholdMs, cleaned |-> Len(stale),
                    details |-> stale, scanned |-> stale, ran |-> RanFor(store, stale)]
  /\ calls' = calls + 1
  /\ UNCHANGED <<loads, faults, cp, pc, call, ret, prev, now, uuid, fnCalls, crashes,
                 registered, confirmed, exec, obj, task, codec, fp>>

\* sweep rejects: the chain of one stale checkpoint fails, because a runner
\* threw when it was invoked (executeAllCleanups rejects) or because its
\* upsert failed; the chains of the other stale checkpoints still persist
SweepRejected(thresholdMs) ==
  /\ calls < MaxCalls
  /\ faults < MaxFaults
  /\ LET stale == fetchStale(store, thresholdMs, now)
         hit == {stale[i] : i \in 1..Len(stale)}
     IN \E bad \in hit :
          /\ store' = [r \in DOMAIN store |->
                         IF r \in hit \ {bad} THEN reaped(store[r], now) ELSE store[r]]
          /\ reap' = [op |-> "sweep", ok |-> FALSE, seq |-> calls + 1,
                      thresholdMs |-> thresholdMs, failed |-> bad,
                      scanned |-> stale, ran |-> RanFor(store, stale)]
  /\ calls' = calls + 1
  /\ faults' = faults + 1
  /\ UNCHANGED <<loads, cp, pc, call, ret, prev, now, uuid, fnCalls, crashes,
                 registered, confirmed, exec, obj, task, codec, fp>>

\* sweepAllCleanups: every checkpoint with pending cleanups has them run and
\* is persisted with no cleanup; resolves with the count
SweepAllCleanups ==
  /\ calls < MaxCalls
  /\ LET cps == fetchPendingCleanups(store)
         hit == {cps[i] : i \in 1..Len(cps)}
     IN /\ store' = [r \in DOMAIN store |-> IF r \in hit THEN swept(store[r]) ELSE store[r]]
        /\ reap' = [op |-> "sweepAllCleanups", ok |-> TRUE, seq |-> calls + 1,
                    cleaned |-> Len(cps), scanned |-> cps,
                      ran |-> RanFor(store, cps)]
  /\ calls' = calls + 1
  /\ UNCHANGED <<loads, faults, cp, pc, call, ret, prev, now, uuid, fnCalls, crashes,
                 registered, confirmed, exec, obj, task, codec, fp>>

\* sweepAllCleanups rejects: as for sweep, the chain of one checkpoint fails
SweepAllCleanupsRejected ==
  /\ calls < MaxCalls
  /\ faults < MaxFaults
  /\ LET cps == fetchPendingCleanups(store)
         hit == {cps[i] : i \in 1..Len(cps)}
     IN \E bad \in hit :
          /\ store' = [r \in DOMAIN store |->
                         IF r \in hit \ {bad} THEN swept(store[r]) ELSE store[r]]
          /\ reap' = [op |-> "sweepAllCleanups", ok |-> FALSE, seq |-> calls + 1,
                      failed |-> bad, scanned |-> cps,
                      ran |-> RanFor(store, cps)]
  /\ calls' = calls + 1
  /\ faults' = faults + 1
  /\ UNCHANGED <<loads, cp, pc, call, ret, prev, now, uuid, fnCalls, crashes,
                 registered, confirmed, exec, obj, task, codec, fp>>

\* the caller's process dies: its memory is lost, the store is not
Crash(p) ==
  /\ faults < MaxFaults
  /\ faults' = faults + 1
  /\ Loaded(p) \/ pc[p] # "idle"
  /\ crashes' = crashes + 1
  /\ cp' = [cp EXCEPT ![p] = NoCp]
  /\ pc' = [pc EXCEPT ![p] = "idle"]
  /\ call' = [call EXCEPT ![p] = NoCall]
  /\ ret' = [ret EXCEPT ![p] = Crashed]
  /\ prev' = [prev EXCEPT ![p] = NoRet]
  /\ UNCHANGED <<loads, store, reap, now, uuid, fnCalls, calls, registered, confirmed, exec, obj, task, codec, fp>>

Tick ==
  /\ now < MaxNow
  /\ now' = now + 1
  /\ UNCHANGED <<loads, faults, store, cp, pc, call, ret, prev, reap, uuid, fnCalls, crashes, calls,
                 registered, confirmed, exec, obj, task, codec, fp>>

\* what every specification shares: the clock, the phases of a call in
\* flight, and the crash of the caller's process
Progress(p) ==
  \/ FnResolve(p)
  \/ FnReject(p)
  \/ UpsertOk(p)
  \/ UpsertFail(p)
  \/ Then(p)
  \/ Crash(p)

\* the saga protocol on one run: load, compensations around one memoized
\* step, finalization, crashes
SagaNext ==
  \/ Tick
  \/ \E p \in Procs :
       \/ Progress(p)
       \/ LoadStart(p, "r1")
       \/ LoadCleaned(p)
       \/ LoadCleanupRejected(p)
       \/ \E type \in Types : BeforeRiskyStart(p, type)
       \/ \E type \in Types : AfterSafeStart(p, type)
       \/ DurableStart(p, "s1", InAa)
       \/ CompleteStart(p)
       \/ FailStart(p)

\* memoized steps on one run: load, steps of every name and input, clearStep,
\* crashes
StepNext ==
  \/ Tick
  \/ \E p \in Procs :
       \/ Progress(p)
       \/ LoadStart(p, "r1")
       \/ \E name \in Names, inputs \in Inputs : DurableStart(p, name, inputs)
       \/ \E name \in Names : ClearStepStart(p, name)

\* the life cycle of one run: every operation that writes its status, with
\* the reapers running beside the owner
LifecycleNext ==
  \/ Tick
  \/ \E p \in Procs :
       \/ Progress(p)
       \/ LoadStart(p, "r1")
       \/ LoadCleaned(p)
       \/ LoadCleanupRejected(p)
       \/ BeforeRiskyStart(p, "t1")
       \/ AfterSafeStart(p, "t1")
       \/ DurableStart(p, "s1", InAa)
       \/ ClearStepStart(p, "s1")
       \/ CompleteStart(p)
       \/ FailStart(p)
       \/ ClearOk(p, "r1")
       \/ ClearFail(p, "r1")
  \/ \E thresholdMs \in Thresholds : Sweep(thresholdMs)
  \/ \E thresholdMs \in Thresholds : SweepRejected(thresholdMs)
  \/ SweepAllCleanups
  \/ SweepAllCleanupsRejected

\* one run with a single writer and no reaper: every operation that writes
\* or deletes, with the write, the delete and the step function failing
PersistNext ==
  \/ Tick
  \/ \E p \in Procs :
       \/ Progress(p)
       \/ LoadStart(p, "r1")
       \/ LoadCleaned(p)
       \/ LoadCleanupRejected(p)
       \/ BeforeRiskyStart(p, "t1")
       \/ AfterSafeStart(p, "t1")
       \/ DurableStart(p, "s1", InAa)
       \/ ClearStepStart(p, "s1")
       \/ CompleteStart(p)
       \/ FailStart(p)
       \/ ClearOk(p, "r1")
       \/ ClearFail(p, "r1")

\* one run on the windmill adapter, whose reads may fail: load, a
\* compensation, a memoized step, finalization
TolerantNext ==
  \/ Tick
  \/ \E p \in Procs :
       \/ Progress(p)
       \/ LoadStart(p, "r1")
       \/ LoadStartReadFailed(p, "r1")
       \/ LoadCleaned(p)
       \/ LoadCleanupRejected(p)
       \/ BeforeRiskyStart(p, "t1")
       \/ DurableStart(p, "s1", InAa)
       \/ CompleteStart(p)

\* deleting runs: the owner loads either run, records a step, registers a
\* compensation and clears either run
ClearNext ==
  \/ Tick
  \/ \E p \in Procs :
       \/ Progress(p)
       \/ \E fileId \in RunIds : LoadStart(p, fileId)
       \/ LoadCleaned(p)
       \/ LoadCleanupRejected(p)
       \/ BeforeRiskyStart(p, "t1")
       \/ DurableStart(p, "s1", InAa)
       \/ \E fileId \in RunIds : ClearOk(p, fileId)
       \/ \E fileId \in RunIds : ClearFail(p, fileId)

\* the reapers over two runs: the owner loads either run, registers
\* compensations and finalizes, while sweep and sweepAllCleanups scan the store
SweepNext ==
  \/ Tick
  \/ \E p \in Procs :
       \/ UpsertOk(p)
       \/ UpsertFail(p)
       \/ Then(p)
       \/ Crash(p)
       \/ \E fileId \in RunIds : LoadStart(p, fileId)
       \/ LoadCleaned(p)
       \/ LoadCleanupRejected(p)
       \/ \E type \in Types : BeforeRiskyStart(p, type)
       \/ CompleteStart(p)
  \/ \E thresholdMs \in Thresholds : Sweep(thresholdMs)
  \/ \E thresholdMs \in Thresholds : SweepRejected(thresholdMs)
  \/ SweepAllCleanups
  \/ SweepAllCleanupsRejected

\* one executeAllCleanups call, for every registry and action list
ExecNext ==
  \/ \E registry \in Registries, foreign \in Foreign, actions \in ActionLists :
       ExecStart(registry, foreign, actions)
  \/ \E i \in 1..MaxActions : RunnerSettle(i)
  \/ ExecResolve
  \/ ExecReject
  \/ ExecThenClear
  \/ ExecThenClearFails
  \/ ExecLaterPass

\* overlapping calls on one run: loads and steps of two names
OverlapNext ==
  \/ \E t \in Tasks, o \in Objs : TaskLoad(t, o)
  \/ \E t \in Tasks, o \in Objs, name \in Names : TaskStep(t, o, name, InAa)
  \/ \E t \in Tasks :
       \/ TaskFnResolve(t)
       \/ TaskUpsert(t)
       \/ TaskThen(t)

\* a recovery or reaping pass beside the owner of the run: the owner loads
\* and registers compensations, another process loads the same run or sweeps
PassNext ==
  \/ \E t \in Tasks, o \in Objs : TaskLoad(t, o)
  \/ \E t \in Tasks, o \in Objs : TaskBeforeRisky(t, o, "t1")
  \/ \E t \in Tasks :
       \/ TaskSweepAllCleanups(t)
       \/ TaskCleaned(t)
       \/ TaskUpsert(t)
       \/ TaskThen(t)

\* checkpointToRow followed by rowToCheckpoint, for every checkpoint
HashNext ==
  \E a \in FingerprintInputs, b \in FingerprintInputs : Fingerprint(a, b)

RowNext ==
  \/ \E c \in RowCheckpoints : RowEncode(c)
  \/ RowDecode

\* every operation of the orchestration API, on every run
Next ==
  \/ Tick
  \/ \E p \in Procs :
       \/ Progress(p)
       \/ \E fileId \in RunIds : LoadStart(p, fileId)
       \/ \E fileId \in RunIds : LoadStartReadFailed(p, fileId)
       \/ LoadCleaned(p)
       \/ LoadCleanupRejected(p)
       \/ \E type \in Types : BeforeRiskyStart(p, type)
       \/ \E type \in Types : AfterSafeStart(p, type)
       \/ \E name \in Names, inputs \in Inputs : DurableStart(p, name, inputs)
       \/ CompleteStart(p)
       \/ FailStart(p)
       \/ \E name \in Names : ClearStepStart(p, name)
       \/ \E fileId \in RunIds : ClearOk(p, fileId)
       \/ \E fileId \in RunIds : ClearFail(p, fileId)
  \/ \E thresholdMs \in Thresholds : Sweep(thresholdMs)
  \/ \E thresholdMs \in Thresholds : SweepRejected(thresholdMs)
  \/ SweepAllCleanups
  \/ SweepAllCleanupsRejected
  \/ ExecNext
  \/ OverlapNext
  \/ PassNext
  \/ RowNext
  \/ HashNext

Spec == Init /\ [][Next]_vars
SagaSpec == Init /\ [][SagaNext]_vars
StepSpec == Init /\ [][StepNext]_vars
LifecycleSpec == Init /\ [][LifecycleNext]_vars
SweepSpec == Init /\ [][SweepNext]_vars
ExecSpec == Init /\ [][ExecNext]_vars
PersistSpec == Init /\ [][PersistNext]_vars
ClearSpec == Init /\ [][ClearNext]_vars
RowSpec == Init /\ [][RowNext]_vars
PassSpec == Init /\ [][PassNext]_vars
TolerantSpec == Init /\ [][TolerantNext]_vars
HashSpec == Init /\ [][HashNext]_vars
OverlapSpec == Init /\ [][OverlapNext]_vars

\* ------------------------------------------------------------- claims

Terminal == {"completed", "failed"}

\* how many entries of the sequence satisfy the test
Count(list, Test(_)) == Cardinality({i \in DOMAIN list : Test(list[i])})

\* C1: saga guarantee. When load resumes a run right after a crash, every
\* cleanup action that a beforeRisky call returned to the caller before the
\* crash, whose risky operation the caller had not seen succeed, and whose
\* type has a runner, has had that runner invoked with the action's params
\* by the time load is about to return.
C1_SagaGuarantee ==
  \A p \in Procs :
    (pc[p] = "then" /\ call[p].op = "load" /\ ret[p] = Crashed) =>
      \A a \in registered :
        (a.fileId = call[p].fileId /\ a.action.id \notin confirmed
           /\ a.action.type \in call[p].runners) =>
          \E i \in DOMAIN call[p].ran : call[p].ran[i] = Invocation(a.action)

\* C2: crash recovery in load. A load that fetched a checkpoint with n >= 1
\* pending cleanup actions has, when it returns, handed each of them to the
\* cleanup executor exactly once (one runner invocation with the action's
\* params per action whose type has a runner, none otherwise), and returns
\* and has persisted the fetched checkpoint with cleanup = [], status =
\* running and startedAt = the time of the recovery.
C2_LoadRecovery ==
  \A p \in Procs :
    (ret[p].op = "load" /\ ret[p].ok /\ ret[p].found /\ Len(ret[p].row.cleanup) >= 1) =>
      LET r == ret[p]
          pending == r.row.cleanup
      IN /\ Len(r.ran) = Cardinality({i \in DOMAIN pending : pending[i].type \in Runners})
         /\ \A i \in DOMAIN pending :
              LET same(x) == x = Invocation(pending[i])
              IN Count(r.ran, same) = IF pending[i].type \in Runners THEN 1 ELSE 0
         /\ r.value.cleanup = <<>>
         /\ r.value.status = "running"
         /\ r.at <= r.value.startedAt /\ r.value.startedAt <= now
         /\ r.value.fileId = r.fileId
         /\ r.value.steps = r.row.steps
         /\ pc[p] = "idle" => (Stored(r.fileId) /\ store[r.fileId] = r.value /\ cp[p] = r.value)

C2_Witness ==
  \E p \in Procs :
    /\ crashes = 1 /\ pc[p] = "idle"
    /\ ret[p].op = "load" /\ ret[p].ok /\ ret[p].found
    /\ Len(ret[p].row.cleanup) = 2 /\ Len(ret[p].ran) >= 1

\* C3: memoization. When a Step call that returned is followed by a Step call
\* with the same name and the same inputs on the same checkpoint object, the
\* second call does not invoke the step function and returns the result the
\* first returned (so the function ran once, in the first call, if that
\* call was a miss).
C3_Memoization ==
  \A p \in Procs :
    (prev[p].op = "step" /\ prev[p].ok /\ ret[p].op = "step"
       /\ ret[p].name = prev[p].name /\ ret[p].inputs = prev[p].inputs) =>
      (ret[p].ok /\ ret[p].hit /\ ret[p].value = prev[p].value)

C3_Witness ==
  \E p \in Procs :
    /\ prev[p].op = "step" /\ prev[p].ok /\ ~prev[p].hit
    /\ ret[p].op = "step" /\ ret[p].ok /\ ret[p].hit
    /\ ret[p].name = prev[p].name /\ ret[p].inputs = prev[p].inputs

\* C4: memoization survives reload. A Step call that directly follows a load
\* which found the run stored with a record for the step name whose
\* inputHash is the fingerprint of the call's inputs (what a persisted Step
\* with those inputs leaves behind) returns the stored result and does not
\* invoke the step function.
C4_MemoSurvivesReload ==
  \A p \in Procs :
    (ret[p].op = "step" /\ prev[p].op = "load" /\ prev[p].ok /\ prev[p].found
       /\ hash(ret[p].inputs) # TypeError
       /\ HasStep(prev[p].row, ret[p].name)
       /\ prev[p].row.steps[ret[p].name].inputHash = hash(ret[p].inputs)) =>
      (ret[p].ok /\ ret[p].hit
         /\ ret[p].value = prev[p].row.steps[ret[p].name].result)

C4_Witness ==
  \E p \in Procs :
    /\ crashes = 1
    /\ prev[p].op = "load" /\ prev[p].ok /\ prev[p].found
    /\ ret[p].op = "step" /\ ret[p].ok /\ ret[p].hit

\* C5 as claimed: a Step call for a step name recorded by the preceding Step
\* call, with inputs that differ from that call's in some leaf, invokes the
\* step function again.
C5_AnyLeafReexecutes ==
  \A p \in Procs :
    (prev[p].op = "step" /\ prev[p].ok /\ ret[p].op = "step" /\ ret[p].ok
       /\ ret[p].name = prev[p].name
       /\ sortKeys(ret[p].inputs) # sortKeys(prev[p].inputs)) =>
      ~ret[p].hit

\* C5 as amended: a Step call that returns skipped the step function exactly
\* when the checkpoint held a record for the name whose inputHash equals the
\* fingerprint of the inputs, and then returns the recorded result; in every
\* other case it invoked the function, returns its new result, and the
\* stored checkpoint holds for that name the one record {new result, new
\* inputHash}, the records of the other names being unchanged.
C5_ReplayOnlyOnEqualHash ==
  \A p \in Procs :
    (ret[p].op = "step" /\ ret[p].ok) =>
      LET r == ret[p]
          old == StepAt(r.before, r.name)
          f == r.before.fileId
      IN /\ r.hit = (old # NoStep /\ old.inputHash = hash(r.inputs))
         /\ r.hit => r.value = old.result
         /\ (~r.hit /\ pc[p] = "idle") =>
              /\ Stored(f)
              /\ DOMAIN store[f].steps = DOMAIN r.before.steps \cup {r.name}
              /\ store[f].steps[r.name].result = r.value
              /\ store[f].steps[r.name].inputHash = hash(r.inputs)
              /\ old # NoStep => r.value # old.result
              /\ \A n \in DOMAIN r.before.steps \ {r.name} :
                   store[f].steps[n] = r.before.steps[n]

C5_Witness ==
  \E p \in Procs :
    /\ pc[p] = "idle" /\ ret[p].op = "step" /\ ret[p].ok /\ ~ret[p].hit
    /\ HasStep(ret[p].before, ret[p].name)

\* C6: once the persisted status of a run is completed or failed, the only
\* write that makes it running again is the upsert of load's crash-recovery
\* pass.
C6_NoReentryToRunning ==
  [][\A r \in DOMAIN store \cap DOMAIN store' :
       (store[r].status \in Terminal /\ store'[r].status = "running") =>
         \E p \in Procs :
           /\ pc[p] = "upsert" /\ pc'[p] = "then"
           /\ call[p].op = "load" /\ Len(call[p].fetched.cleanup) > 0]_vars

\* C7: the persisted status of a run never changes from completed to failed
\* or from failed to completed.
C7_TerminalIsFinal ==
  [][\A r \in DOMAIN store \cap DOMAIN store' :
       /\ ~(store[r].status = "completed" /\ store'[r].status = "failed")
       /\ ~(store[r].status = "failed" /\ store'[r].status = "completed")]_vars

\* completedAt is null exactly while the status is running
WellStamped(c) ==
  /\ c.status = "running" => c.completedAt = NULL
  /\ c.status \in Terminal => c.completedAt # NULL

\* C8: in every checkpoint persisted or returned by an orchestration
\* operation, status = running implies completedAt = null, and status
\* completed or failed implies completedAt is a timestamp.
C8_CompletedAtMatchesStatus ==
  /\ \A r \in DOMAIN store : WellStamped(store[r])
  /\ \A p \in Procs :
       (ret[p].op \in {"load", "beforeRisky", "afterSafe", "clearStep", "complete", "fail"}
          /\ ret[p].ok) => WellStamped(ret[p].value)

\* C9: when beforeRisky has returned to the caller, the stored checkpoint of
\* the run is the returned one, and its cleanup list is the caller's previous
\* list followed by the new action {type, params}.
C9_RegisteredBeforeRisky ==
  \A p \in Procs :
    (pc[p] = "idle" /\ ret[p].op = "beforeRisky" /\ ret[p].ok) =>
      LET r == ret[p]
          f == r.before.fileId
      IN /\ Stored(f)
         /\ store[f] = r.value
         /\ Len(store[f].cleanup) = Len(r.before.cleanup) + 1
         /\ SubSeq(store[f].cleanup, 1, Len(r.before.cleanup)) = r.before.cleanup
         /\ store[f].cleanup[Len(store[f].cleanup)].type = r.type
         /\ store[f].cleanup[Len(store[f].cleanup)].params = r.params

C9_Witness ==
  \E p \in Procs :
    /\ pc[p] = "idle" /\ ret[p].op = "beforeRisky" /\ ret[p].ok
    /\ Len(ret[p].before.cleanup) >= 1

\* C10: when afterSafe(type) has returned, the stored checkpoint holds no
\* action of that type, holds every other action of the caller's previous
\* list in its previous relative order and nothing else, and its steps,
\* status, startedAt and completedAt are those of the caller's checkpoint.
C10_AfterSafeRemovesType ==
  \A p \in Procs :
    (pc[p] = "idle" /\ ret[p].op = "afterSafe" /\ ret[p].ok) =>
      LET r == ret[p]
          f == r.before.fileId
          old == r.before.cleanup
          new == store[f].cleanup
          kept == {i \in DOMAIN old : old[i].type # r.type}
      IN /\ Stored(f)
         /\ \A j \in DOMAIN new : new[j].type # r.type
         /\ Len(new) = Cardinality(kept)
         /\ \A i \in kept :
              new[Cardinality({k \in kept : k <= i})] = old[i]
         /\ store[f].steps = r.before.steps
         /\ store[f].status = r.before.status
         /\ store[f].startedAt = r.before.startedAt
         /\ store[f].completedAt = r.before.completedAt

C10_Witness ==
  \E p \in Procs :
    /\ pc[p] = "idle" /\ ret[p].op = "afterSafe" /\ ret[p].ok
    /\ LET same(a) == a.type = ret[p].type
       IN Count(ret[p].before.cleanup, same) >= 2

\* a reaper call has just settled
SweepSettled == reap' # reap /\ reap'.op = "sweep"
SweepAllSettled == reap' # reap /\ reap'.op = "sweepAllCleanups"

\* the invocations made are exactly one per action of the list whose type has
\* a runner, with that action's id, type and params
RanExactly(ran, actions) ==
  /\ Len(ran) = Cardinality({i \in DOMAIN actions : actions[i].type \in Runners})
  /\ \A i \in DOMAIN actions :
       LET same(x) == x = Invocation(actions[i])
       IN Count(ran, same) = IF actions[i].type \in Runners THEN 1 ELSE 0

\* C11: when Sweep(threshold) returns, every checkpoint that was stored as
\* running with startedAt older than now - threshold has had its pending
\* cleanup actions run and is stored with status failed and cleanup = [];
\* cleaned is the number of those checkpoints and details lists their run ids.
C11_SweepReapsStale ==
  [][(SweepSettled /\ reap'.ok) =>
       LET old == {r \in DOMAIN store :
                     store[r].status = "running"
                       /\ store[r].startedAt < now - reap'.thresholdMs}
       IN /\ \A r \in old :
               /\ store'[r].status = "failed"
               /\ store'[r].cleanup = <<>>
               /\ store'[r].fileId = r
               /\ \E k \in DOMAIN reap'.details :
                    /\ reap'.details[k] = r
                    /\ RanExactly(reap'.ran[k], store[r].cleanup)
          /\ reap'.cleaned = Cardinality(old)
          /\ Len(reap'.details) = Cardinality(old)
          /\ {reap'.details[k] : k \in DOMAIN reap'.details} = old]_vars

C11_Witness ==
  /\ reap.op = "sweep" /\ reap.ok
  /\ reap.cleaned = 2
  /\ \E k \in DOMAIN reap.ran : Len(reap.ran[k]) >= 1

\* C12: a Sweep, whether it resolves or rejects, leaves alone every stored
\* checkpoint that is completed or failed or whose startedAt is not older
\* than now - threshold: the row is not written and none of its cleanup
\* actions is run. A run whose startedAt is now, as load's recovery leaves
\* it, is such a checkpoint.
C12_SweepLeavesOthersAlone ==
  [][SweepSettled =>
       \A r \in DOMAIN store :
         (store[r].status \in Terminal
            \/ ~(store[r].startedAt < now - reap'.thresholdMs)) =>
           /\ store'[r] = store[r]
           /\ \A k \in DOMAIN reap'.scanned : reap'.scanned[k] # r
           /\ \A k \in DOMAIN reap'.ran : \A j \in DOMAIN reap'.ran[k] :
                \A i \in DOMAIN store[r].cleanup :
                  reap'.ran[k][j].id # store[r].cleanup[i].id]_vars

C12_Witness ==
  /\ reap.op = "sweep" /\ reap.ok /\ reap.cleaned = 1
  /\ \E r \in DOMAIN store :
       /\ store[r].status = "completed"
       /\ Len(store[r].cleanup) >= 1
       /\ \A k \in DOMAIN reap.details : reap.details[k] # r

\* C13: when SweepAllCleanups returns, every checkpoint that was stored with
\* a non-empty cleanup list, whatever its status, has had its pending
\* actions run and is stored with cleanup = [] and every other field as it
\* was; the other rows are not written; no stored checkpoint has pending
\* cleanup; cleaned is the number of checkpoints processed.
C13_SweepAllClearsCleanupOnly ==
  [][(SweepAllSettled /\ reap'.ok) =>
       LET old == {r \in DOMAIN store : Len(store[r].cleanup) > 0}
       IN /\ DOMAIN store' = DOMAIN store
          /\ \A r \in old :
               /\ store'[r].cleanup = <<>>
               /\ store'[r].status = store[r].status
               /\ store'[r].completedAt = store[r].completedAt
               /\ store'[r].startedAt = store[r].startedAt
               /\ store'[r].steps = store[r].steps
               /\ store'[r].fileId = r
               /\ \E k \in DOMAIN reap'.scanned :
                    /\ reap'.scanned[k] = r
                    /\ RanExactly(reap'.ran[k], store[r].cleanup)
          /\ \A r \in DOMAIN store \ old : store'[r] = store[r]
          /\ \A r \in DOMAIN store' : store'[r].cleanup = <<>>
          /\ reap'.cleaned = Cardinality(old)]_vars

C13_Witness ==
  /\ reap.op = "sweepAllCleanups" /\ reap.ok /\ reap.cleaned >= 1
  /\ \E k \in DOMAIN reap.scanned :
       /\ Stored(reap.scanned[k])
       /\ store[reap.scanned[k]].status = "completed"
       /\ Len(reap.ran[k]) >= 1

\* C14: the cleanup executor never fails: for every registry and every
\* action list, however the runners fail (a rejected promise, or a throw at
\* invocation), executeAllCleanups does not reject.
C14_ExecutorNeverFails == exec.phase # "rejected"

\* C15: in one executeAllCleanups call every action whose type has a
\* registered runner has that runner invoked exactly once, with that
\* action's params, whatever its siblings do (reject, throw, have no runner).
C15_EachRunnerInvokedOnce ==
  exec.phase # "idle" =>
    \A i \in DOMAIN exec.actions :
      exec.actions[i].type \in DOMAIN exec.registry =>
        LET same(x) == x = Invocation(exec.actions[i])
            mine(x) == x.id = exec.actions[i].id
        IN Count(exec.invoked, same) = 1 /\ Count(exec.invoked, mine) = 1

C15_Witness ==
  /\ exec.phase \in {"resolved", "rejected"}
  /\ \E i, j, k \in DOMAIN exec.actions :
       /\ exec.state[i] \in {"threw", "caught"}
       /\ exec.state[j] = "skipped"
       /\ exec.state[k] = "resolved"
       /\ exec.actions[k].type \in DOMAIN exec.registry
       /\ i < k /\ j < k

\* C16: cleanup fan-out: once executeAllCleanups is running every runner
\* found has been invoked, before any is awaited, and executeAllCleanups
\* settles only after every invoked runner has settled.
C16_FanOutThenJoin ==
  exec.phase # "idle" =>
    /\ Len(exec.invoked) =
         Cardinality({i \in DOMAIN exec.actions :
                        Lookup(exec.registry, exec.actions[i].type) # "undefined"})
    /\ exec.phase \in {"resolved", "rejected"} =>
         \A i \in DOMAIN exec.actions : exec.state[i] # "pending"

\* C17: an action whose type has no runner in the registry is skipped with a
\* warning naming the type: nothing is invoked for it, and the batch does
\* not fail.
C17_MissingRunnerSkipped ==
  exec.phase # "idle" =>
    \A i \in DOMAIN exec.actions :
      exec.actions[i].type \notin DOMAIN exec.registry =>
        /\ exec.state[i] = "skipped"
        /\ \E w \in DOMAIN exec.warned : exec.warned[w] = exec.actions[i].type
        /\ \A c \in DOMAIN exec.invoked : exec.invoked[c].id # exec.actions[i].id
        /\ exec.phase # "rejected"

\* the operations that persist an edit and then Object.assign it onto the
\* caller's checkpoint
Edits == {"step", "beforeRisky", "afterSafe", "clearStep"}
Writes == Edits \cup {"load", "complete", "fail"}

\* a fault other than the crash of the process happens in this step
Faulted == faults' # faults /\ crashes' = crashes

\* what an operation of p returned is what the store holds
Saved(p) ==
  (pc[p] = "idle" /\ ret[p].op \in Writes /\ ret[p].ok) =>
    IF ret[p].op = "step"
      THEN ret[p].hit \/
           /\ Stored(cp[p].fileId)
           /\ HasStep(store[cp[p].fileId], ret[p].name)
           /\ store[cp[p].fileId].steps[ret[p].name].result = ret[p].value
           /\ store[cp[p].fileId].steps[ret[p].name].inputHash = ret[p].h
    ELSE Stored(ret[p].value.fileId) /\ store[ret[p].value.fileId] = ret[p].value

\* C18: a storage write failure propagates: when the upsert of step (after
\* the step function ran), beforeRisky, afterSafe, clearStep, complete, fail
\* or load fails, or the delete of clear fails, the operation fails with
\* that error and nothing is stored; and a step never returns a result that
\* is not stored.
C18_WriteFailurePropagates ==
  [][\A p \in Procs :
       /\ (pc[p] = "upsert" /\ Faulted) =>
            /\ call[p].op \in Writes
            /\ pc'[p] = "idle"
            /\ ret'[p].op = call[p].op /\ ~ret'[p].ok /\ ret'[p].error = "upsert"
            /\ store' = store
       /\ (pc[p] = "idle" /\ Faulted /\ calls' # calls) =>
            /\ pc'[p] = "idle"
            /\ ret'[p].op = "clear" /\ ~ret'[p].ok /\ ret'[p].error = "delete"
            /\ store' = store
       /\ Saved(p)']_vars

C18_Witness ==
  \E p \in Procs :
    /\ pc[p] = "idle" /\ ret[p].op = "step" /\ ~ret[p].ok /\ ret[p].error = "upsert"
    /\ fnCalls = 1
    /\ ~Stored(cp[p].fileId) \/ ~HasStep(store[cp[p].fileId], ret[p].name)

\* the operation of p that just settled is an edit whose upsert failed
PersistFailed(p) ==
  pc[p] = "idle" /\ ret[p].op \in Edits /\ ~ret[p].ok /\ ret[p].error = "upsert"

\* after a failed persist neither the caller's checkpoint nor the stored one
\* holds the attempted edit, and the two agree on steps and cleanup
NoEdit(p) ==
  PersistFailed(p) =>
    LET f == cp[p].fileId
    IN /\ cp[p] = ret[p].before
       /\ Stored(f) => /\ store[f].steps = cp[p].steps
                       /\ store[f].cleanup = cp[p].cleanup
       /\ ret[p].op = "step" =>
            /\ ~checkCache(StepAt(cp[p], ret[p].name), ret[p].h).hit
            /\ Stored(f) => ~checkCache(StepAt(store[f], ret[p].name), ret[p].h).hit
       /\ ret[p].op = "beforeRisky" =>
            /\ \A i \in DOMAIN cp[p].cleanup : cp[p].cleanup[i].id # ret[p].action.id
            /\ Stored(f) =>
                 \A i \in DOMAIN store[f].cleanup : store[f].cleanup[i].id # ret[p].action.id

\* the step that follows repeats the step whose persist failed
RepeatsStep(p) ==
  /\ PersistFailed(p) /\ ret[p].op = "step"
  /\ calls' # calls
  /\ \/ /\ call'[p].op = "step"
        /\ call'[p].name = ret[p].name /\ call'[p].inputs = ret[p].inputs
     \/ /\ prev'[p] = ret[p] /\ ret'[p].op = "step"
        /\ ret'[p].name = ret[p].name /\ ret'[p].inputs = ret[p].inputs

\* C19: after a persist failure in step, beforeRisky, afterSafe or
\* clearStep the caller's checkpoint and the stored checkpoint still agree
\* and neither contains the attempted edit, so repeating the step with the
\* same inputs is a cache miss and invokes the step function again.
C19_FailedPersistLeavesNoEdit ==
  [][\A p \in Procs :
       /\ (pc[p] = "upsert" /\ call[p].op \in Edits /\ Faulted) =>
            /\ cp'[p] = cp[p]
            /\ store' = store
       /\ NoEdit(p)'
       /\ RepeatsStep(p) => (pc'[p] = "fn" /\ fnCalls' = fnCalls + 1)]_vars

C19_Witness ==
  \E p \in Procs :
    /\ pc[p] = "fn" /\ fnCalls = 2
    /\ ret[p].op = "step" /\ ~ret[p].ok /\ ret[p].error = "upsert"
    /\ call[p].name = ret[p].name /\ call[p].inputs = ret[p].inputs

\* C20: when the step function fails the step fails with that error, the
\* function is not invoked again, nothing is written to the store, no
\* cleanup runner is invoked, and the caller's checkpoint is unchanged.
C20_StepFunctionFailure ==
  [][\A p \in Procs :
       (pc[p] = "fn" /\ Faulted) =>
         /\ pc'[p] = "idle"
         /\ ret'[p].op = "step" /\ ~ret'[p].ok /\ ret'[p].error = "fn"
         /\ ret'[p].name = call[p].name /\ ret'[p].inputs = call[p].inputs
         /\ fnCalls' = fnCalls
         /\ store' = store
         /\ reap' = reap /\ exec' = exec
         /\ cp'[p] = cp[p] /\ cp'[p] = call[p].before]_vars

C20_Witness ==
  \E p \in Procs :
    /\ pc[p] = "idle" /\ ret[p].op = "step" /\ ~ret[p].ok /\ ret[p].error = "fn"
    /\ Len(cp[p].cleanup) > 0
    /\ cp[p] = ret[p].before

\* C21: after each successful step (on a miss), beforeRisky, afterSafe,
\* clearStep, complete or fail the caller's checkpoint object holds the
\* state that was persisted, without the caller reassigning it.
C21_CallerObjectHoldsPersisted ==
  \A p \in Procs :
    (/\ pc[p] = "idle" /\ ret[p].op \in Writes \ {"load"} /\ ret[p].ok
     /\ ret[p].op = "step" => ~ret[p].hit) =>
      /\ Stored(cp[p].fileId)
      /\ cp[p] = store[cp[p].fileId]
      /\ ret[p].op # "step" => cp[p] = ret[p].value

\* the calls made so far were all made by one caller, on the object of t
SingleCaller(t) == \A v \in Tasks : task[v] # NoTask => task[v].o = task[t].o

\* C22: within a single in-process caller the step function of one step name
\* and input fingerprint is never executing more than once at the same
\* time, also when the step is called again with the same name and inputs
\* before the first call has resolved.
C22_OneExecutionPerFingerprint ==
  \A t, u \in Tasks :
    (/\ t # u /\ task[t] # NoTask /\ task[u] # NoTask
     /\ SingleCaller(t)
     /\ task[t].op = "step" /\ task[u].op = "step"
     /\ task[t].name = task[u].name /\ task[t].h = task[u].h) =>
      ~(task[t].pc = "fn" /\ task[u].pc = "fn")

\* C23: whenever two step calls for different step names on the same
\* checkpoint object have both returned successfully, the stored checkpoint
\* holds both step records, also when the second call was started before
\* the first resolved.
C23_BothStepsPersisted ==
  \A t, u \in Tasks :
    (/\ t # u /\ task[t] # NoTask /\ task[u] # NoTask
     /\ SingleCaller(t)
     /\ task[t].op = "step" /\ task[u].op = "step"
     /\ task[t].pc = "done" /\ task[u].pc = "done" /\ task[t].ok /\ task[u].ok
     /\ task[t].name # task[u].name) =>
      /\ Stored("r1")
      /\ HasStep(store["r1"], task[t].name) /\ store["r1"].steps[task[t].name].result = task[t].value
      /\ HasStep(store["r1"], task[u].name) /\ store["r1"].steps[task[u].name].result = task[u].value

\* C24: two processes that load the same run and call the same step with the
\* same inputs can both miss the cache and both execute the step function;
\* the stored checkpoint is exactly the value written by the upsert that
\* completed last.
C24_LastWriterWins ==
  \A t \in Written :
    (\A u \in Written : task[u].w <= task[t].w) =>
      Stored("r1") /\ store["r1"] = task[t].next

C24_Witness ==
  \E t, u \in Tasks :
    /\ task[t] # NoTask /\ task[u] # NoTask
    /\ task[t].op = "step" /\ task[u].op = "step"
    /\ task[t].o # task[u].o
    /\ task[t].name = task[u].name /\ task[t].inputs = task[u].inputs
    /\ task[t].pc = "done" /\ task[u].pc = "done"
    /\ ~task[t].hit /\ ~task[u].hit /\ task[t].k # task[u].k
    /\ task[t].w < task[u].w
    /\ store["r1"] = task[u].next
    /\ store["r1"].steps[task[u].name].result = task[u].value
    /\ task[t].value # task[u].value

\* the load of p that just returned
LoadReturned(p) == pc[p] = "idle" /\ ret[p].op = "load" /\ ret[p].ok

\* C25: load of a run with no stored checkpoint creates a checkpoint with
\* that run id, status running, completedAt null, no steps and no cleanup,
\* invokes no cleanup runner, persists it and returns it, so that a
\* following fetch of that run finds it.
C25_LoadCreatesEmpty ==
  \A p \in Procs :
    (LoadReturned(p) /\ ~ret[p].found) =>
      /\ ret[p].value = [fileId |-> ret[p].fileId, startedAt |-> ret[p].at,
                         completedAt |-> NULL, status |-> "running",
                         steps |-> <<>>, cleanup |-> <<>>]
      /\ ret[p].ran = <<>>
      /\ Stored(ret[p].fileId)
      /\ store[ret[p].fileId] = ret[p].value
      /\ cp[p] = ret[p].value

C25_Witness ==
  \E p \in Procs :
    /\ LoadReturned(p) /\ ~ret[p].found
    /\ DOMAIN store = {ret[p].fileId}
    /\ ret[p].value.startedAt = MaxNow

\* C26: load of a stored checkpoint whose cleanup list is empty invokes no
\* cleanup runner and returns, and persists again, the stored checkpoint
\* unchanged: steps, status, startedAt and completedAt are preserved, also
\* when the stored status is completed or failed.
C26_LoadKeepsStored ==
  \A p \in Procs :
    (LoadReturned(p) /\ ret[p].found /\ Len(ret[p].row.cleanup) = 0) =>
      /\ ret[p].ran = <<>>
      /\ ret[p].value = ret[p].row
      /\ Stored(ret[p].fileId)
      /\ store[ret[p].fileId] = ret[p].row
      /\ cp[p] = ret[p].row

C26_Witness ==
  \E p \in Procs :
    /\ LoadReturned(p) /\ ret[p].found /\ Len(ret[p].row.cleanup) = 0
    /\ ret[p].row.status \in Terminal
    /\ ret[p].row.steps # <<>>
    /\ ret[p].row.startedAt < now

\* the clearStep of p that just returned
ClearStepReturned(p) == pc[p] = "idle" /\ ret[p].op = "clearStep" /\ ret[p].ok

\* C27: clearStep(name) persists the checkpoint without steps[name] and with
\* every other step record, the cleanup list and the status unchanged (the
\* same value when the name is absent); the next step call for that name,
\* even with the inputs used before, invokes the step function again.
C27_ClearStepForcesReexecution ==
  [][\A p \in Procs :
       /\ ClearStepReturned(p)' =>
            LET r == ret'[p]
                c == r.value
            IN /\ DOMAIN c.steps = DOMAIN r.before.steps \ {r.name}
               /\ \A n \in DOMAIN c.steps : c.steps[n] = r.before.steps[n]
               /\ c.cleanup = r.before.cleanup /\ c.status = r.before.status
               /\ c.fileId = r.before.fileId /\ c.startedAt = r.before.startedAt
               /\ c.completedAt = r.before.completedAt
               /\ ~HasStep(r.before, r.name) => c = r.before
               /\ store'[c.fileId] = c
               /\ cp'[p] = c
       /\ (/\ ClearStepReturned(p) /\ calls' # calls
           /\ \/ call'[p].op = "step" /\ call'[p].name = ret[p].name
              \/ /\ prev'[p] = ret[p] /\ ret'[p].op = "step" /\ ret'[p].name = ret[p].name
                 /\ ret'[p].h # TypeError) =>
            (pc'[p] = "fn" /\ fnCalls' = fnCalls + 1)]_vars

C27_Witness ==
  \E p \in Procs :
    /\ pc[p] = "fn" /\ fnCalls = 2
    /\ ret[p].op = "clearStep" /\ ret[p].ok /\ HasStep(ret[p].before, ret[p].name)
    /\ prev[p].op = "step" /\ prev[p].ok
    /\ call[p].name = ret[p].name /\ prev[p].name = ret[p].name
    /\ call[p].inputs = prev[p].inputs

\* the load of p that just returned follows a clear of the same run
LoadAfterClear(p) ==
  /\ LoadReturned(p)
  /\ prev[p].op = "clear" /\ prev[p].ok /\ prev[p].fileId = ret[p].fileId

\* C28: clear(fileId) deletes the stored checkpoint of that run and of no
\* other run; a following load of the same run returns a fresh running
\* checkpoint with no steps and no cleanup and runs no cleanup runner, so
\* every step executes again.
C28_ClearDeletesOneRun ==
  [][\A p \in Procs :
       /\ (/\ pc[p] = "idle" /\ pc'[p] = "idle" /\ calls' # calls
           /\ ret'[p].op = "clear" /\ ret'[p].ok) =>
            /\ DOMAIN store' = DOMAIN store \ {ret'[p].fileId}
            /\ \A r \in DOMAIN store' : store'[r] = store[r]
       /\ LoadAfterClear(p)' =>
            /\ ~ret'[p].found
            /\ ret'[p].ran = <<>>
            /\ ret'[p].value = emptyCheckpoint(ret'[p].fileId, ret'[p].at)
            /\ cp'[p] = ret'[p].value
       /\ (LoadAfterClear(p) /\ calls' # calls /\ call'[p].op = "step") =>
            (pc'[p] = "fn" /\ fnCalls' = fnCalls + 1)
       /\ (LoadAfterClear(p) /\ calls' # calls /\ pc'[p] = "idle") => ret'[p].op # "step"]_vars

C28_Witness ==
  \E p \in Procs :
    /\ pc[p] = "fn" /\ fnCalls = 2
    /\ ret[p].op = "load" /\ ret[p].ok
    /\ prev[p].op = "clear" /\ prev[p].ok /\ prev[p].fileId = ret[p].fileId
    /\ prev[p].row # NoCp
    /\ HasStep(prev[p].row, call[p].name)
    /\ prev[p].row.steps[call[p].name].inputHash = call[p].h

\* the ids of the actions in the stored cleanup list of run f
StoredActions(st, f) ==
  IF f \in DOMAIN st THEN {st[f].cleanup[i] : i \in DOMAIN st[f].cleanup} ELSE {}

\* the upsert of p's call reaches the store in this step
Persists(p) == pc[p] = "upsert" /\ pc'[p] = "then"

\* step, clearStep, complete and fail persist the caller's cleanup list as it
\* is; beforeRisky persists it with one action appended at the end
ListKept ==
  \A p \in Procs :
    Persists(p) =>
      LET f == call[p].next.fileId
      IN /\ call[p].op \in {"step", "clearStep", "complete", "fail"} =>
              store'[f].cleanup = cp[p].cleanup
         /\ call[p].op = "beforeRisky" =>
              /\ store'[f].cleanup = Append(cp[p].cleanup, call[p].action)
              /\ call[p].action.type = call[p].type
              /\ call[p].action.params = call[p].params

\* a leaves the stored list of run f through afterSafe for its type, load's
\* crash-recovery pass, sweep or sweepAllCleanups
LeavesAsListed(f, a) ==
  \/ \E p \in Procs : /\ Persists(p) /\ call[p].next.fileId = f
                      /\ \/ call[p].op = "afterSafe" /\ call[p].type = a.type
                         \/ call[p].op = "load" /\ call[p].ran # <<>>
  \/ reap' # reap /\ reap'.op \in {"sweep", "sweepAllCleanups"}

\* a leaves the stored list of run f because clear deletes the checkpoint
LeavesByClear(f) ==
  \E p \in Procs : /\ pc[p] = "idle" /\ pc'[p] = "idle" /\ calls' # calls
                   /\ ret'[p].op = "clear" /\ ret'[p].ok /\ ret'[p].fileId = f
                   /\ f \notin DOMAIN store'

\* C29 as stated: the cleanup list is append-only until explicitly cleared:
\* step, clearStep, complete and fail persist it unchanged, beforeRisky
\* appends one action at the end, and an action leaves the stored list only
\* through afterSafe for its type, load's crash-recovery pass, sweep or
\* sweepAllCleanups.
C29_AppendOnlyAsStated ==
  [][/\ ListKept
     /\ \A f \in RunIds :
          \A a \in StoredActions(store, f) \ StoredActions(store', f) :
            LeavesAsListed(f, a)]_vars

\* C29, amended: as stated, with one more way for an action to leave the
\* stored list: clear, which deletes the checkpoint with its cleanup list.
C29_AppendOnlyUntilCleared ==
  [][/\ ListKept
     /\ \A f \in RunIds :
          \A a \in StoredActions(store, f) \ StoredActions(store', f) :
            LeavesAsListed(f, a) \/ LeavesByClear(f)]_vars

C29_Witness ==
  \E p \in Procs :
    /\ pc[p] = "idle" /\ ret[p].op = "clear" /\ ret[p].ok
    /\ ret[p].row # NoCp
    /\ Len(ret[p].row.cleanup) > 0
    /\ ~Stored(ret[p].fileId)

\* a value that JSON text can carry: null, a number, a string, an array or
\* an object of such values
RECURSIVE IsJson(_)
IsJson(v) ==
  IF v.t = "arr" THEN \A i \in DOMAIN v.xs : IsJson(v.xs[i])
  ELSE IF v.t = "obj" THEN \A i \in DOMAIN v.kv : IsJson(v.kv[i][2])
  ELSE v.t \in {"str", "num", "null"}

\* d has the run id and status of c, the result of every step of c, and the
\* type and params of every cleanup action of c in the same order
Preserved(c, d) ==
  /\ d.fileId = c.fileId /\ d.status = c.status
  /\ Keys(d.steps) = Keys(c.steps)
  /\ \A name \in Keys(c.steps) :
       Get(Get(d.steps, name), K("result")) = Get(Get(c.steps, name), K("result"))
  /\ Len(Items(d.cleanup)) = Len(Items(c.cleanup))
  /\ \A i \in DOMAIN Items(c.cleanup) :
       /\ Get(Items(d.cleanup)[i], K("type")) = Get(Items(c.cleanup)[i], K("type"))
       /\ Get(Items(d.cleanup)[i], K("params")) = Get(Items(c.cleanup)[i], K("params"))

\* every cleanup params of c is a JSON value, and every step result is one or
\* is undefined
Encodable(c) ==
  /\ \A name \in Keys(c.steps) :
       LET result == Get(Get(c.steps, name), K("result"))
       IN result = Undefined \/ IsJson(result)
  /\ \A i \in DOMAIN Items(c.cleanup) : IsJson(Get(Items(c.cleanup)[i], K("params")))

\* C30 as stated: for every checkpoint, rowToCheckpoint(checkpointToRow(cp))
\* has the same run id and status, the same result for every step and the
\* same type and params for every cleanup action in the same order.
C30_RoundTripEveryCheckpoint ==
  codec.phase = "decoded" => Preserved(codec.cp, codec.restored)

\* C30, amended: the round trip preserves run id, status, step results and
\* the cleanup actions' type and params for every checkpoint whose step
\* results are JSON values or undefined and whose cleanup params are JSON
\* values; and rowToCheckpoint gives the same checkpoint for the text row
\* and for the row holding the structured values that text encodes.
C30_RoundTripJsonValues ==
  codec.phase = "decoded" =>
    /\ Encodable(codec.cp) => Preserved(codec.cp, codec.restored)
    /\ codec.restored =
         rowToCheckpoint([codec.structured EXCEPT
                            !.steps = JSONparse(codec.row.steps.s),
                            !.cleanup = JSONparse(codec.row.cleanup.s)])
    /\ (IsJson(codec.cp.steps) /\ IsJson(codec.cp.cleanup)) => codec.restored = codec.passed

C30_Witness ==
  /\ codec.phase = "decoded"
  /\ IsJson(codec.cp.steps) /\ IsJson(codec.cp.cleanup)
  /\ codec.cp.status = "completed"
  /\ Len(codec.cp.steps.kv) = MaxRecords /\ Len(codec.cp.cleanup.xs) = MaxRecords
  /\ \E name \in Keys(codec.cp.steps) :
       Get(Get(codec.restored.steps, name), K("result")) = Obj(<< <<K("k"), Str(<<100>>)>> >>)
  /\ \E i \in DOMAIN codec.restored.cleanup.xs :
       Get(codec.restored.cleanup.xs[i], K("params")) = Obj(<< <<K("k"), Str(<<100>>)>> >>)
  /\ codec.row.steps.t = "str" /\ codec.structured.steps.t = "obj"

\* the two values differ at most in the order of their object keys, at any depth
RECURSIVE SameUpToKeyOrder(_, _)
SameUpToKeyOrder(u, v) ==
  IF u.t = "obj" /\ v.t = "obj"
    THEN /\ Len(u.kv) = Len(v.kv)
         /\ Keys(u) = Keys(v)
         /\ \A key \in Keys(u) : SameUpToKeyOrder(GetIn(u.kv, key), GetIn(v.kv, key))
  ELSE IF u.t = "arr" /\ v.t = "arr"
    THEN /\ Len(u.xs) = Len(v.xs)
         /\ \A i \in DOMAIN u.xs : SameUpToKeyOrder(u.xs[i], v.xs[i])
  ELSE u = v

\* every object of the value lists its keys in ascending order
RECURSIVE Canonical(_)
Canonical(v) ==
  IF v.t = "obj"
    THEN /\ \A i \in DOMAIN v.kv : Canonical(v.kv[i][2])
         /\ \A i \in DOMAIN v.kv : \A j \in DOMAIN v.kv :
              i < j => StrLess(v.kv[i][1], v.kv[j][1])
  ELSE IF v.t = "arr" THEN \A i \in DOMAIN v.xs : Canonical(v.xs[i])
  ELSE TRUE

\* the canonical form of an array is the array of the canonical forms of its
\* elements, each at the index it had
InPlace(v, sorted) ==
  v.t = "arr" =>
    /\ sorted.t = "arr"
    /\ Len(sorted.xs) = Len(v.xs)
    /\ \A i \in DOMAIN v.xs : SameUpToKeyOrder(v.xs[i], sorted.xs[i])

\* C31: the fingerprint does not depend on the order of object keys, at any
\* nesting level: two values that differ only in key order have one canonical
\* form and one fingerprint; the canonical form has the keys of every object in
\* ascending order and keeps every array element at its index.
C31_FingerprintIgnoresKeyOrder ==
  fp.phase = "hashed" =>
    /\ SameUpToKeyOrder(fp.a, fp.b) => fp.sa = fp.sb /\ fp.ha = fp.hb
    /\ Canonical(fp.sa)
    /\ SameUpToKeyOrder(fp.a, fp.sa)
    /\ InPlace(fp.a, fp.sa)

\* two values whose nested objects list their keys in different orders got the
\* same fingerprint
C31_Witness ==
  /\ fp.phase = "hashed"
  /\ fp.a.t = "obj"
  /\ fp.b.t = "obj"
  /\ SortPairs(fp.a.kv) # SortPairs(fp.b.kv)
  /\ SameUpToKeyOrder(fp.a, fp.b)
  /\ fp.ha = fp.hb
  /\ fp.ha # TypeError

\* C32: the fingerprint is total: every input, undefined and bare primitives
\* included, yields a string.
C32_FingerprintTotal ==
  fp.phase = "hashed" => fp.ha # TypeError /\ fp.hb # TypeError

\* the step on which the read of p's load fails
ReadFails(p) == pc[p] = "idle" /\ loads' = loads + 1 /\ faults' = faults + 1

\* the step on which p's load returns after its read of a stored run failed
ReturnsAfterFailedRead(p) ==
  /\ pc[p] = "then"
  /\ call[p].op = "load"
  /\ ~call[p].found
  /\ call[p].row # NoCp
  /\ pc'[p] = "idle"
  /\ ret'[p].op = "load"

\* C33: on an adapter whose fetchOne answers null when the read fails, a
\* failed read in load is taken for a run never stored: load does not raise
\* the read error, invokes no cleanup runner, builds the empty running
\* checkpoint, writes it with upsert over whatever was stored, and returns it.
C33_FailedReadLoadsEmpty ==
  [][\A p \in Procs :
       /\ ReadFails(p) =>
            /\ pc'[p] = "upsert"
            /\ call'[p].ran = <<>>
            /\ call'[p].next = [fileId |-> call'[p].fileId, startedAt |-> now,
                                completedAt |-> NULL, status |-> "running",
                                steps |-> <<>>, cleanup |-> <<>>]
       /\ ReturnsAfterFailedRead(p) =>
            /\ ret'[p].ok
            /\ ret'[p].value = call[p].next
            /\ cp'[p] = call[p].next
            /\ store[call[p].fileId] = call[p].next]_vars

\* a load whose read failed returned the empty checkpoint, and the stored
\* checkpoint, which held a step, has been overwritten with it
C33_Witness ==
  \E p \in Procs :
    /\ LoadReturned(p)
    /\ ~ret[p].found
    /\ ret[p].row # NoCp
    /\ ret[p].row.steps # <<>>
    /\ ret[p].value.steps = <<>>
    /\ store[ret[p].fileId] = ret[p].value

\* the caller's checkpoint records the step under the fingerprint h
Matches(p, name, h) == HasStep(cp[p], name) /\ cp[p].steps[name].inputHash = h

\* the step on which a Step call of p resolves without leaving the caller
StepResolvesAtOnce(p) ==
  /\ pc[p] = "idle"
  /\ pc'[p] = "idle"
  /\ calls' = calls + 1
  /\ ret'[p].op = "step"
  /\ ret'[p].ok

\* C34: a Step call whose name is recorded under the fingerprint of its
\* inputs resolves with the recorded result and has no other effect: fn is
\* not invoked, nothing is written to storage, and the caller's checkpoint
\* and the stored one stay as they were, whatever the status of the run; fn is
\* invoked only when the record does not match.
C34_CacheHitHasNoEffect ==
  [][\A p \in Procs :
       /\ (pc[p] = "idle" /\ pc'[p] = "fn") =>
            ~Matches(p, call'[p].name, call'[p].h)
       /\ StepResolvesAtOnce(p) =>
            /\ Matches(p, ret'[p].name, ret'[p].h)
            /\ ret'[p].value = cp[p].steps[ret'[p].name].result
            /\ fnCalls' = fnCalls
            /\ store' = store
            /\ cp' = cp]_vars

\* a Step call on a finalized run was a hit
C34_Witness ==
  \E p \in Procs :
    /\ pc[p] = "idle"
    /\ ret[p].op = "step"
    /\ ret[p].ok
    /\ ret[p].hit
    /\ cp[p].status \in Terminal
    /\ store["r1"] = cp[p]

\* the outcome is that of a load that ran the recovery pass
Recovered(r) == r.op = "load" /\ r.ok /\ r.ran # <<>>

\* C35: the recovery pass of load leaves the steps as they were stored: the
\* checkpoint it returns and persists has the stored step records, and a Step
\* call that follows it with a recorded name and fingerprint is a hit that
\* returns the recorded result.
C35_RecoveryKeepsSteps ==
  \A p \in Procs :
    /\ (pc[p] = "idle" /\ Recovered(ret[p])) =>
         /\ ret[p].value.steps = ret[p].row.steps
         /\ cp[p].steps = ret[p].row.steps
         /\ store[ret[p].fileId].steps = ret[p].row.steps
    /\ (pc[p] = "idle" /\ ret[p].op = "step" /\ Recovered(prev[p])
          /\ ret[p].name \in DOMAIN prev[p].row.steps
          /\ ret[p].h = prev[p].row.steps[ret[p].name].inputHash) =>
         /\ ret[p].ok
         /\ ret[p].hit
         /\ ret[p].value = prev[p].row.steps[ret[p].name].result

\* a step recorded after a compensation was registered is a hit after the
\* load that ran the compensation
C35_Witness ==
  \E p \in Procs :
    /\ pc[p] = "idle"
    /\ ret[p].op = "step"
    /\ ret[p].ok
    /\ ret[p].hit
    /\ Recovered(prev[p])
    /\ ret[p].name \in DOMAIN prev[p].row.steps
    /\ \E i \in DOMAIN prev[p].row.cleanup :
         prev[p].row.cleanup[i].registeredAt
           =< prev[p].row.steps[ret[p].name].completedAt

\* the runner of the i-th action, if one was started, has settled
Settled(i) == exec.state[i] \in {"skipped", "resolved", "caught"}

\* C36: the write that clears the cleanup list of a checkpoint is issued only
\* after executeAllCleanups has resolved, when every runner started for that
\* checkpoint has settled; if the write fails the stored checkpoint still
\* lists the actions, and the next pass invokes the runners of all of them
\* again; the stored list is emptied only by a pass that invoked them.
C36_ClearAfterRunnersSettle ==
  exec.phase # "idle" =>
    /\ exec.write # "none" =>
         /\ exec.phase = "resolved"
         /\ \A i \in DOMAIN exec.actions : Settled(i)
    /\ exec.write # "ok" => exec.listed = exec.actions
    /\ exec.write = "ok" => exec.listed = <<>>
    /\ exec.pass > 1 =>
         /\ exec.actions = exec.listed \/ exec.write = "ok"
         /\ Len(exec.invoked) =
              Cardinality({i \in DOMAIN exec.actions :
                             Lookup(exec.registry, exec.actions[i].type) # "undefined"})

\* a second pass, made after the write of the first failed, has invoked the
\* runners again and cleared the list once they had settled
C36_Witness ==
  /\ exec.phase = "resolved"
  /\ exec.pass = 2
  /\ exec.write = "ok"
  /\ Len(exec.actions) > 1
  /\ Len(exec.invoked) > 1
  /\ Len(exec.order) > 1

\* the task is a pass over a checkpoint it read with pending cleanups
IsPass(r) == r # NoTask /\ r.op \in {"load", "sweepAllCleanups"} /\ r.ran # <<>>

\* the pass read the action and so attempted it
Attempted(r, a) == \E i \in DOMAIN r.fetched.cleanup : r.fetched.cleanup[i].id = a.id

\* C37: the write of a recovery or reaping pass removes from the stored
\* checkpoint only actions the pass attempted: an action the owner persisted
\* between the read and the write of the pass is still stored after it.
C37_PassRemovesOnlyAttempted ==
  [][\A t \in Tasks :
       (IsPass(task[t]) /\ task[t].pc = "upsert" /\ task'[t].pc = "then") =>
         \A a \in StoredActions(store, "r1") :
           ~Attempted(task[t], a) => a \in StoredActions(store', "r1")]_vars

\* the upsert of p's complete or fail reaches the store in this step
Finalizes(p) == Persists(p) /\ call[p].op \in {"complete", "fail"}

\* C38: complete and fail change only status and completedAt: the checkpoint
\* they persist has the run id, startedAt, steps and cleanup list of the
\* checkpoint they were given, so a run finalized with a compensation
\* registered is still found by fetchPendingCleanups.
C38_FinalizeKeepsTheRest ==
  [][\A p \in Procs :
       Finalizes(p) =>
         LET f == cp[p].fileId
         IN /\ Stored(f)'
            /\ store'[f].fileId = f
            /\ store'[f].startedAt = cp[p].startedAt
            /\ store'[f].steps = cp[p].steps
            /\ store'[f].cleanup = cp[p].cleanup
            /\ store'[f].status = (IF call[p].op = "complete" THEN "completed" ELSE "failed")
            /\ store'[f].completedAt \in 1..now
            /\ Len(cp[p].cleanup) > 0 =>
                 \E i \in DOMAIN fetchPendingCleanups(store') :
                   fetchPendingCleanups(store')[i] = f]_vars

\* a run with a recorded step and a registered compensation was finalized,
\* and the stored checkpoint holds both
C38_Witness ==
  \E p \in Procs :
    /\ pc[p] = "idle"
    /\ ret[p].op \in {"complete", "fail"}
    /\ ret[p].ok
    /\ ret[p].value.steps # <<>>
    /\ ret[p].value.cleanup # <<>>
    /\ ret[p].value.startedAt < ret[p].value.completedAt
    /\ store[ret[p].value.fileId] = ret[p].value

====
